---- MODULE Spec2Model ----
(***************************************************************************)
(* Model of the discordsticker bot: the flat sticker Manager               *)
(* (sticker package: loadStickers, insertSticker, AddSticker,              *)
(* RenameSticker, MatchedStickers, containedStickers) and the command      *)
(* handlers that call it under the Manager's RWMutex.                      *)
(*                                                                         *)
(* Strings are sequences of one-character strings.  A file path under the  *)
(* root is a record [dir, stem, ext]: the directory components below the   *)
(* root, the base name without its extension, and the extension with its   *)
(* leading dot ("" when the file has none), i.e. what filepath.Ext splits. *)
(***************************************************************************)
EXTENDS Integers, Sequences, FiniteSets, TLC

(***************************************************************************)
(* Bounds of the model.                                                    *)
(***************************************************************************)
MaxNameLen == 2
MaxFiles == 2
NumProcs == 2

(***************************************************************************)
(* Strings.                                                                *)
(***************************************************************************)
Separator == "/"

RECURSIVE SeqsUpTo(_, _)
SeqsUpTo(S, n) ==
    IF n = 0 THEN {<<>>}
    ELSE LET shorter == SeqsUpTo(S, n - 1)
         IN  shorter \cup {Append(s, c) : s \in shorter, c \in S}

CharOrd(c) ==
    CASE c = "-" -> 45
      [] c = "/" -> 47
      [] c = "A" -> 65
      [] c = "B" -> 66
      [] c = "a" -> 97
      [] c = "b" -> 98
      [] c = "[" -> 91
      [] c = "]" -> 93
      [] c = "A9" -> 169
      [] c = "C3" -> 195
      [] c = "FE" -> 254
      [] c = "FF" -> 255
      [] OTHER   -> 127

ToLowerCh(c) ==
    CASE c = "A" -> "a"
      [] c = "B" -> "b"
      [] OTHER   -> c

ToLower(s) == [i \in 1..Len(s) |-> ToLowerCh(s[i])]

Contains(s, sub) ==
    \E i \in 0..(Len(s) - Len(sub)) : SubSeq(s, i + 1, i + Len(sub)) = sub

ReplaceAll(s, old, new) == [i \in 1..Len(s) |-> IF s[i] = old THEN new ELSE s[i]]

ToSlash(s) == ReplaceAll(s, Separator, "/")

\* strings.Compare / the < of Go strings: byte-wise lexicographic order.
RECURSIVE Compare(_, _)
Compare(s, t) ==
    IF s = <<>> /\ t = <<>> THEN 0
    ELSE IF s = <<>> THEN -1
    ELSE IF t = <<>> THEN 1
    ELSE IF CharOrd(Head(s)) < CharOrd(Head(t)) THEN -1
    ELSE IF CharOrd(Head(s)) > CharOrd(Head(t)) THEN 1
    ELSE Compare(Tail(s), Tail(t))

RECURSIVE JoinWith(_, _)
JoinWith(parts, sep) ==
    IF parts = <<>> THEN <<>>
    ELSE IF Len(parts) = 1 THEN parts[1]
    ELSE parts[1] \o <<sep>> \o JoinWith(Tail(parts), sep)

(***************************************************************************)
(* Sticker and the index helpers.                                          *)
(***************************************************************************)
Sticker(name, path) == [name |-> name, path |-> path]

Ext(s) == s.path.ext

RootPath(stem, ext) == [dir |-> <<>>, stem |-> stem, ext |-> ext]

RemoveAt(seq, i) == SubSeq(seq, 1, i - 1) \o SubSeq(seq, i + 1, Len(seq))

InsertAt(seq, i, e) == SubSeq(seq, 1, i - 1) \o <<e>> \o SubSeq(seq, i, Len(seq))

\* sort.Find: binary search for the smallest 0-based i with cmp(i) <= 0.
RECURSIVE FindLoop(_, _, _, _)
FindLoop(ss, name, i, j) ==
    IF i < j
    THEN LET h == (i + j) \div 2
         IN  IF Compare(name, ss[h + 1].name) > 0
             THEN FindLoop(ss, name, h + 1, j)
             ELSE FindLoop(ss, name, i, h)
    ELSE i

SortFind(ss, name) ==
    LET i == FindLoop(ss, name, 0, Len(ss))
    IN  [i |-> i, found |-> i < Len(ss) /\ Compare(name, ss[i + 1].name) = 0]

\* Mutant of insertSticker: the entry is inserted whether or not its name
\* is there already.
insertStickerAlways(ss, s) ==
    LET f == SortFind(ss, s.name)
    IN  InsertAt(ss, f.i + 1, s)

insertSticker(ss, s) ==
    LET f == SortFind(ss, s.name)
    IN  IF f.found THEN ss ELSE InsertAt(ss, f.i + 1, s)

IsSorted(ss) == \A i \in 1..(Len(ss) - 1) : Compare(ss[i].name, ss[i + 1].name) <= 0

\* sort.Sort is not stable: any name-sorted arrangement of the entries.
SortedArrangements(S) ==
    {ss \in [1..Cardinality(S) -> S] :
        /\ \A i, j \in 1..Cardinality(S) : i # j => ss[i] # ss[j]
        /\ IsSorted(ss)}

(***************************************************************************)
(* MatchedStickers and containedStickers, as index positions (the Go code  *)
(* returns pointers into m.stickers, compared by identity).                *)
(***************************************************************************)
FilterSeq(seq, Keep(_)) ==
    LET F[k \in 0..Len(seq)] ==
            IF k = 0 THEN <<>>
            ELSE IF Keep(seq[k]) THEN Append(F[k - 1], seq[k]) ELSE F[k - 1]
    IN  F[Len(seq)]

Indices(ss) == [i \in 1..Len(ss) |-> i]

\* Mutant of MatchedIdx: empty pattern groups are not filtered out, so an
\* empty group next to other groups matches every sticker.
MatchedIdxKeepEmpty(ss, cs, patternGroups) ==
    LET pgs  == IF cs THEN patternGroups
                ELSE [g \in 1..Len(patternGroups) |->
                        [k \in 1..Len(patternGroups[g]) |->
                            ToLower(patternGroups[g][k])]]
        Matched(i) == \E g \in 1..Len(pgs) :
                        \A k \in 1..Len(pgs[g]) : Contains(ss[i].name, pgs[g][k])
    IN  IF Len(patternGroups) = 0 THEN Indices(ss)
        ELSE FilterSeq(Indices(ss), Matched)

\* Mutant of MatchedIdx: the inner loop has no break, so a sticker is
\* appended once for every group that matches it.
MatchedIdxPerGroup(ss, cs, patternGroups) ==
    LET NonEmpty(pg) == Len(pg) # 0
        pgs0 == FilterSeq(patternGroups, NonEmpty)
        pgs  == IF cs THEN pgs0
                ELSE [g \in 1..Len(pgs0) |->
                        [k \in 1..Len(pgs0[g]) |-> ToLower(pgs0[g][k])]]
        Hit(i, g) == \A k \in 1..Len(pgs[g]) : Contains(ss[i].name, pgs[g][k])
        Ret[n \in 0..(Len(ss) * Len(pgs))] ==
            IF n = 0 THEN <<>>
            ELSE LET i == ((n - 1) \div Len(pgs)) + 1
                     g == ((n - 1) % Len(pgs)) + 1
                 IN  IF Hit(i, g) THEN Append(Ret[n - 1], i) ELSE Ret[n - 1]
    IN  IF Len(pgs0) = 0 THEN Indices(ss)
        ELSE Ret[Len(ss) * Len(pgs)]

\* Mutant of MatchedIdx: a pattern matches only a name equal to it.
MatchedIdxExact(ss, cs, patternGroups) ==
    LET NonEmpty(pg) == Len(pg) # 0
        pgs0 == FilterSeq(patternGroups, NonEmpty)
        pgs  == IF cs THEN pgs0
                ELSE [g \in 1..Len(pgs0) |->
                        [k \in 1..Len(pgs0[g]) |-> ToLower(pgs0[g][k])]]
        Matched(i) == \E g \in 1..Len(pgs) :
                        \A k \in 1..Len(pgs[g]) : ss[i].name = pgs[g][k]
    IN  IF Len(pgs0) = 0 THEN Indices(ss)
        ELSE FilterSeq(Indices(ss), Matched)

MatchedIdx(ss, cs, patternGroups) ==
    LET NonEmpty(pg) == Len(pg) # 0
        pgs0 == FilterSeq(patternGroups, NonEmpty)
        pgs  == IF cs THEN pgs0
                ELSE [g \in 1..Len(pgs0) |->
                        [k \in 1..Len(pgs0[g]) |-> ToLower(pgs0[g][k])]]
        Matched(i) == \E g \in 1..Len(pgs) :
                        \A k \in 1..Len(pgs[g]) : Contains(ss[i].name, pgs[g][k])
    IN  IF Len(pgs0) = 0 THEN Indices(ss)
        ELSE FilterSeq(Indices(ss), Matched)

\* pg[i] = strings.ToLower(p): the caller's pattern slices as the call
\* leaves them (the empty groups are never visited).
PatternsAfter(cs, patternGroups) ==
    IF cs \/ \A g \in 1..Len(patternGroups) : Len(patternGroups[g]) = 0
    THEN patternGroups
    ELSE [g \in 1..Len(patternGroups) |->
            [k \in 1..Len(patternGroups[g]) |-> ToLower(patternGroups[g][k])]]

MatchedStickers(ss, cs, patternGroups) ==
    LET idx == MatchedIdx(ss, cs, patternGroups)
    IN  [k \in 1..Len(idx) |-> ss[idx[k]]]

\* Mutant of containedIdx: only entries whose name is a prefix of the name.
containedIdxPrefix(ss, cs, name) ==
    LET n == IF cs THEN name ELSE ToLower(name)
        Inside(i) == /\ Len(ss[i].name) <= Len(n)
                     /\ SubSeq(n, 1, Len(ss[i].name)) = ss[i].name
    IN  FilterSeq(Indices(ss), Inside)

containedIdx(ss, cs, name) ==
    LET n == IF cs THEN name ELSE ToLower(name)
        Inside(i) == Contains(n, ss[i].name)
    IN  FilterSeq(Indices(ss), Inside)

containedStickers(ss, cs, name) ==
    LET idx == containedIdx(ss, cs, name)
    IN  [k \in 1..Len(idx) |-> ss[idx[k]]]

(***************************************************************************)
(* loadStickers: every file with a non-empty extension becomes an entry    *)
(* whose name is the path relative to the root, extension removed,         *)
(* separators replaced by '-', lower-cased unless case sensitive.          *)
(***************************************************************************)
DeriveName(p, cs) ==
    LET rel   == <<Separator>> \o JoinWith(p.dir \o <<p.stem>>, Separator)
        name0 == IF rel[1] = Separator THEN Tail(rel) ELSE rel
        name1 == ReplaceAll(ToSlash(name0), "/", "-")
    IN  IF cs THEN name1 ELSE ToLower(name1)

LoadedEntries(fs, cs) == {Sticker(DeriveName(p, cs), p) : p \in {q \in fs : q.ext # ""}}

\* The possible values of m.stickers after loadStickers; it returns no error.
loadStickers(fs, cs) == SortedArrangements(LoadedEntries(fs, cs))

(***************************************************************************)
(* AddSticker.  resp is what the remote server and the file system do:     *)
(* head (HEAD succeeds), ctype and clen (headers of the HEAD response),    *)
(* get (GET succeeds), create (os.Create succeeds), copy (io.Copy          *)
(* succeeds).                                                              *)
(***************************************************************************)
AddStickerSizeLimit == 3500000

\* strconv.Atoi on the Content-Length header values of the model.
Atoi(text) ==
    CASE text = "3500000" -> [ok |-> TRUE, val |-> 3500000]
      [] text = "3500001" -> [ok |-> TRUE, val |-> 3500001]
      [] text = "1"       -> [ok |-> TRUE, val |-> 1]
      [] OTHER            -> [ok |-> FALSE, val |-> 0]

\* Mutant of ValidCType: the content type is compared without regard to
\* case.
ValidCTypeAnyCase(ctype) ==
    ctype \in {"image/png", "image/jpeg", "image/gif", "image/PNG"}

ValidCType(ctype) == ctype \in {"image/png", "image/jpeg", "image/gif"}

\* "." + ctype[len("image/"):]
CTypeExt(ctype) ==
    CASE ctype = "image/png"  -> ".png"
      [] ctype = "image/jpeg" -> ".jpeg"
      [] ctype = "image/gif"  -> ".gif"
      [] OTHER                -> ".bin"

\* if !m.caseSensitive { name = strings.ToLower(name) }
\* Mutant of foldName: the name is never lower-cased.
foldNameNever(cs, name) == name

foldName(cs, name) == IF cs THEN name ELSE ToLower(name)

\* os.Create(path): the file exists afterwards (an existing one is truncated).
createFile(fs, path) == fs \cup {path}

\* The deferred os.Remove(path) that runs when AddSticker returns an error.
\* Mutant of removeFile: the rollback is missing.
removeFileSkipped(fs, path) == fs

removeFile(fs, path) == fs \ {path}

AddOutcome(err, tag, ss, fs, http, created) ==
    [err |-> err, tag |-> tag, stickers |-> ss, files |-> fs,
     http |-> http, created |-> created]

AddSticker(ss, fs, cs, name, resp) ==
    LET size == Atoi(resp.clen)
        path == RootPath(name, CTypeExt(resp.ctype))
        folded == foldName(cs, name)
    IN  IF Contains(ToSlash(name), "/")
            THEN AddOutcome("user", "invalid_name", ss, fs, 0, FALSE)
        ELSE IF Len(MatchedIdx(ss, cs, <<<<name>>>>)) # 0
            THEN AddOutcome("user", "contained_by", ss, fs, 0, FALSE)
        ELSE IF Len(containedIdx(ss, cs, name)) # 0
            THEN AddOutcome("user", "contains", ss, fs, 0, FALSE)
        ELSE IF ~resp.head
            THEN AddOutcome("user", "head_failed", ss, fs, 1, FALSE)
        ELSE IF ~ValidCType(resp.ctype)
            THEN AddOutcome("user", "bad_ctype", ss, fs, 1, FALSE)
        ELSE IF ~size.ok
            THEN AddOutcome("user", "bad_length", ss, fs, 1, FALSE)
        ELSE IF size.val > AddStickerSizeLimit
            THEN AddOutcome("user", "too_large", ss, fs, 1, FALSE)
        ELSE IF ~resp.get
            THEN AddOutcome("uninformable", "get_failed", ss, fs, 2, FALSE)
        ELSE IF ~resp.create
            THEN AddOutcome("uninformable", "create_failed", ss, fs, 2, FALSE)
        ELSE IF ~resp.copy
            THEN AddOutcome("uninformable", "copy_failed", ss,
                            removeFile(createFile(fs, path), path), 2, TRUE)
        ELSE AddOutcome("nil", "added", insertSticker(ss, Sticker(folded, path)),
                        createFile(fs, path), 2, TRUE)

(***************************************************************************)
(* RenameSticker.  moveOK is whether os.Rename succeeds.                   *)
(***************************************************************************)
\* srcMatched[0].name = dst; srcMatched[0].path = dstPath
\* Mutants of renameEntry: one of the two assignments is missing.
renameEntryKeepPath(s, name, path) == [s EXCEPT !.name = name]

renameEntryKeepName(s, name, path) == [s EXCEPT !.path = path]

renameEntry(s, name, path) == [s EXCEPT !.name = name, !.path = path]

\* os.Rename(srcPath, dstPath): the file moves, replacing a file at dstPath.
moveFile(fs, srcPath, dstPath) == (fs \ {srcPath}) \cup {dstPath}

RenameOutcome(err, tag, ss, fs) ==
    [err |-> err, tag |-> tag, stickers |-> ss, files |-> fs]

\* len(srcMatched) > 1
\* Mutant of srcAmbiguous: the first of several matches is taken.
srcAmbiguousNever(srcMatched) == FALSE

srcAmbiguous(srcMatched) == Len(srcMatched) > 1

\* len(dstMatched) > 1 || (len(dstMatched) == 1 && dstMatched[0] != srcMatched[0])
\* Mutant of dstContained: the entry being renamed counts as a conflict too.
dstContainedOrSelf(dstMatched, target) == Len(dstMatched) >= 1

dstContained(dstMatched, target) ==
    Len(dstMatched) > 1 \/ (Len(dstMatched) = 1 /\ dstMatched[1] # target)

RenameSticker(ss, fs, cs, src, dst, moveOK) ==
    LET srcMatched == MatchedIdx(ss, cs, <<<<src>>>>)
        dstMatched == MatchedIdx(ss, cs, <<<<dst>>>>)
        target     == srcMatched[1]
        NotTarget(i) == i # target
        others     == FilterSeq(containedIdx(ss, cs, dst), NotTarget)
        srcPath    == ss[target].path
        dstPath    == RootPath(dst, Ext(ss[target]))
        moved      == renameEntry(ss[target], foldName(cs, dst), dstPath)
    IN  IF Len(srcMatched) < 1
            THEN RenameOutcome("user", "not_found", ss, fs)
        ELSE IF srcAmbiguous(srcMatched)
            THEN RenameOutcome("user", "ambiguous", ss, fs)
        ELSE IF Contains(ToSlash(dst), "/")
            THEN RenameOutcome("user", "invalid_name", ss, fs)
        ELSE IF dstContained(dstMatched, target)
            THEN RenameOutcome("user", "contained_by", ss, fs)
        ELSE IF Len(others) # 0
            THEN RenameOutcome("user", "contains", ss, fs)
        ELSE IF ~moveOK
            THEN RenameOutcome("uninformable", "move_failed", ss, fs)
        ELSE RenameOutcome("nil", "renamed",
                           insertSticker(RemoveAt(ss, target), moved),
                           moveFile(fs, srcPath, dstPath))

(***************************************************************************)
(* The flat Manager as a state machine: NewManager, then any sequence of   *)
(* AddSticker and RenameSticker calls.  Only the Manager changes the root. *)
(***************************************************************************)
VARIABLES
    mstate,         \* "Uninitialized" or "Ready" (NewManager returned m, nil)
    caseSensitive,  \* m.caseSensitive
    stickers,       \* m.stickers
    files,          \* the files under m.root
    last,           \* the last call: its arguments and what it returned
    pc,             \* per handler goroutine: where it is in its handler
    req,            \* per handler goroutine: the command's arguments
    loc,            \* per handler goroutine: srcMatched[0], insert position
    rwWriter,       \* m.mu: the goroutine holding Lock, 0 when none
    rwReaders,      \* m.mu: the goroutines holding RLock
    buttons,        \* CustomIDs of the buttons shown to users
    opened          \* the last reply with catalog content since the
                    \* latest event arrived: a listing, or the os.Open of
                    \* a sticker file for serving

VARIABLES
    query           \* the last MatchedStickers call: its argument, the
                    \* argument as the call left it, and the result

handlerVars == <<pc, req, loc, rwWriter, rwReaders, buttons, opened>>

VARIABLES
    items,          \* CoolDownCounter.items: the keys mapped to true
    timers,         \* per key: the wake-up times of the goroutines that
                    \* CoolDown started and that still sleep, earliest first
    now,            \* the clock
    cdLast,         \* the last step taken on the counter and its result
    accepted        \* per key: the time until which the last CoolDown that
                    \* returned true asked the key to stay, and whether a
                    \* caller removed the key since

VARIABLES
    cdMu,           \* CoolDownCounter.mu: 0 when free, else the handler or
                    \* the timer goroutine inside CoolDown / RemoveCoolDown
    coolDown        \* the configured cooldown of post, random and the
                    \* buttons; with 0 their handlers never call cd.CoolDown

VARIABLES
    groups,         \* grouped Manager.groups
    root,           \* the directories and files under the grouped root
    gLast           \* the last call on the grouped Manager: arguments,
                    \* returned error, the return statement taken, the
                    \* side effects made and the compensations run

VARIABLES
    walk            \* what filepath.WalkDir meets under the root: whether
                    \* the root is a readable directory, and the
                    \* directories under it that cannot be read

VARIABLES
    fetch           \* the last AddSticker's exchange with the remote
                    \* server: the HEAD response's headers, the length of
                    \* the GET response's body, the bytes in the new file

VARIABLES
    reply           \* the last handleAdd or handleRename: what the server
                    \* and the file system did during the call, and the
                    \* kind of message the handler replied with

VARIABLES
    post            \* the last handlePost: the pattern argument, the file
                    \* it opened and posted, and the reply

VARIABLES
    hint            \* a list of names, what countUniqLen returned for it
                    \* and what withHint made of each name

managerVars == <<mstate, caseSensitive, stickers, files, last>>

queryVars == <<query>>

coolVars == <<items, timers, now, cdLast, accepted, cdMu, coolDown>>

groupedVars == <<groups, root, gLast>>

walkVars == <<walk>>

fetchVars == <<fetch>>

replyVars == <<reply, post>>

hintVars == <<hint>>

otherVars == <<queryVars, coolVars, groupedVars, walkVars, fetchVars, replyVars, hintVars>>

vars == <<mstate, caseSensitive, stickers, files, last,
          pc, req, loc, rwWriter, rwReaders, buttons, opened, otherVars>>

Procs == 1..NumProcs

NoPath == [dir |-> <<>>, stem |-> <<>>, ext |-> ""]

NoRequest == [cmd |-> "none", name |-> <<>>, dst |-> <<>>, ext |-> ""]

\* key is the ChannelID of the event; cooled says that the handler is
\* called after cd.CoolDown.
NoLocal == [target |-> 0, at |-> 0, entry |-> Sticker(<<>>, NoPath),
            key |-> 0, cooled |-> FALSE]

NoOpen == [how |-> "none", shared |-> FALSE, indexed |-> FALSE]

NoQuery == [op |-> "none", groups |-> <<>>, after |-> <<>>, result |-> <<>>]

NumKeys == 1
MaxTime == 4
MaxDuration == 2

\* The channel ids used as keys.
Keys == 1..NumKeys

Durations == 1..MaxDuration

NoCoolDown == [op |-> "none", item |-> 0, ok |-> FALSE]

NeverAccepted == [until |-> -1, touched |-> FALSE]

\* NewCoolDownCounter(): an empty map, no goroutine.
CoolDownIdle ==
    /\ items = {}
    /\ timers = [k \in Keys |-> <<>>]
    /\ now = 0
    /\ cdLast = NoCoolDown
    /\ accepted = [k \in Keys |-> NeverAccepted]
    /\ cdMu = 0
    /\ coolDown = 0

NoGroupedCall ==
    [op |-> "none", src |-> <<>>, path |-> <<>>, err |-> "nil",
     tag |-> "none", did |-> <<>>, undone |-> <<>>]

GroupedIdle ==
    /\ groups = <<>>
    /\ root = [dirs |-> {}, files |-> {}]
    /\ gLast = NoGroupedCall

\* No handler has replied.
NoReply ==
    [op |-> "none",
     resp |-> [head |-> TRUE, ctype |-> "image/png", clen |-> "3500000",
               get |-> TRUE, create |-> TRUE, copy |-> TRUE],
     move |-> TRUE, text |-> "none"]

\* handlePost has not been called.
NoPost ==
    [op |-> "none", arg |-> <<>>, multi |-> FALSE, open |-> FALSE,
     posted |-> FALSE, path |-> [dir |-> <<>>, stem |-> <<>>, ext |-> ""],
     text |-> "none"]

\* No request has been sent.
NoFetch == [head |-> FALSE, ctype |-> "", clen |-> "", body |-> 0, written |-> 0]

\* The root is a directory and every directory under it can be read.
NoWalkFault == [root |-> "dir", denied |-> {}, arg |-> <<"r">>]

\* countUniqLen has not been called on strs yet.
NoHint(strs) ==
    [op |-> "none", strs |-> strs, err |-> "nil", str1 |-> <<>>, str2 |-> <<>>,
     ret |-> <<>>, shown |-> <<>>]

\* No caller of the Manager has sent a request or replied.
CallersIdle ==
    /\ fetch = NoFetch
    /\ reply = NoReply
    /\ post = NoPost
    /\ hint = NoHint(<<>>)

\* Nothing outside the manager and its handlers has happened.
OthersIdle ==
    /\ query = NoQuery
    /\ CoolDownIdle
    /\ GroupedIdle
    /\ walk = NoWalkFault
    /\ CallersIdle

HandlersIdle ==
    /\ pc = [p \in Procs |-> "idle"]
    /\ req = [p \in Procs |-> NoRequest]
    /\ loc = [p \in Procs |-> NoLocal]
    /\ rwWriter = 0
    /\ rwReaders = {}
    /\ buttons = {}
    /\ opened = NoOpen

\* Names users type: short strings over a, b, plus an upper-case one and
\* one with a slash.
InputNames == SeqsUpTo({"a", "b"}, MaxNameLen) \cup {<<"A">>, <<"a", "/">>}

\* Files the root may hold before the bot starts.
InitPaths ==
    {RootPath(<<"a">>, ".png"), RootPath(<<"a">>, ".gif"),
     RootPath(<<"A">>, ".png"), RootPath(<<"a", "b">>, ".png"),
     RootPath(<<"a", "-", "b">>, ".png"),
     [dir |-> <<<<"a">>>>, stem |-> <<"b">>, ext |-> ".png"],
     RootPath(<<"b">>, ".gif"), RootPath(<<"b">>, "")}

Response(head, ctype, clen, get, create, copy) ==
    [head |-> head, ctype |-> ctype, clen |-> clen,
     get |-> get, create |-> create, copy |-> copy]

\* What the remote server and the file system do during one AddSticker:
\* all goes well (png or gif), or exactly one step goes wrong.
Responses ==
    {Response(TRUE, "image/png", "3500000", TRUE, TRUE, TRUE),
     Response(TRUE, "image/gif", "1", TRUE, TRUE, TRUE),
     Response(FALSE, "image/png", "1", TRUE, TRUE, TRUE),
     Response(TRUE, "text/html", "1", TRUE, TRUE, TRUE),
     Response(TRUE, "image/png", "", TRUE, TRUE, TRUE),
     Response(TRUE, "image/png", "3500001", TRUE, TRUE, TRUE),
     Response(TRUE, "image/png", "1", FALSE, TRUE, TRUE),
     Response(TRUE, "image/png", "1", TRUE, FALSE, TRUE),
     Response(TRUE, "image/png", "1", TRUE, TRUE, FALSE)}

OkResponse == Response(TRUE, "image/png", "3500000", TRUE, TRUE, TRUE)

\* The calls that return before any request or file operation: what the
\* server and the file system would have done does not matter to them.
AddRejectsName(ss, cs, name) ==
    AddSticker(ss, {}, cs, name, OkResponse).http = 0

RenameRejectsNames(ss, cs, src, dst) ==
    RenameSticker(ss, {}, cs, src, dst, TRUE).err = "user"

\* Patterns users type to pick the sticker to rename: the full name of an
\* indexed sticker, a one-letter part of a name, or nothing at all.
RenameSources(ss) ==
    {ss[i].name : i \in 1..Len(ss)} \cup {<<>>, <<"a">>, <<"b">>, <<"A">>}

Call(op, src, name, err, tag, http, created) ==
    [op |-> op, src |-> src, name |-> name, err |-> err, tag |-> tag,
     http |-> http, created |-> created]

Init ==
    /\ mstate = "Uninitialized"
    /\ caseSensitive \in BOOLEAN
    /\ stickers = <<>>
    /\ files \in {F \in SUBSET InitPaths : Cardinality(F) <= MaxFiles}
    /\ last = Call("none", <<>>, <<>>, "nil", "none", 0, FALSE)
    /\ HandlersIdle
    /\ OthersIdle

NewManager ==
    /\ mstate = "Uninitialized"
    /\ \E loaded \in loadStickers(files, caseSensitive) :
        stickers' = loaded
    /\ mstate' = "Ready"
    /\ last' = Call("load", <<>>, <<>>, "nil", "loaded", 0, FALSE)
    /\ UNCHANGED <<caseSensitive, files>>
    /\ UNCHANGED <<handlerVars, otherVars>>

DoAddSticker ==
    /\ mstate = "Ready"
    /\ last.op = "none"
    /\ Cardinality(files) < MaxFiles
    /\ \E name \in InputNames :
        \E resp \in IF AddRejectsName(stickers, caseSensitive, name)
                    THEN {OkResponse} ELSE Responses :
        LET r == AddSticker(stickers, files, caseSensitive, name, resp)
        IN  /\ stickers' = r.stickers
            /\ files' = r.files
            /\ last' = Call("add", <<>>, name, r.err, r.tag, r.http, r.created)
    /\ UNCHANGED <<mstate, caseSensitive>>
    /\ UNCHANGED <<handlerVars, otherVars>>

DoRenameSticker ==
    /\ mstate = "Ready"
    /\ last.op = "none"
    /\ \E src \in RenameSources(stickers), dst \in InputNames :
        \E moveOK \in IF RenameRejectsNames(stickers, caseSensitive, src, dst)
                      THEN {TRUE} ELSE BOOLEAN :
        LET r == RenameSticker(stickers, files, caseSensitive, src, dst, moveOK)
        IN  /\ stickers' = r.stickers
            /\ files' = r.files
            /\ last' = Call("rename", src, dst, r.err, r.tag, 0, FALSE)
    /\ UNCHANGED <<mstate, caseSensitive>>
    /\ UNCHANGED <<handlerVars, otherVars>>

\* The caller takes the returned error, replies to the user and returns.
Reply ==
    /\ last.op # "none"
    /\ last' = Call("none", <<>>, <<>>, "nil", "none", 0, FALSE)
    /\ UNCHANGED <<mstate, caseSensitive, stickers, files>>
    /\ UNCHANGED <<handlerVars, otherVars>>

Next == NewManager \/ DoAddSticker \/ DoRenameSticker \/ Reply

Spec == Init /\ [][Next]_vars

TypeOK ==
    /\ mstate \in {"Uninitialized", "Ready"}
    /\ caseSensitive \in BOOLEAN
    /\ \A i \in 1..Len(stickers) : stickers[i].path \in files

(***************************************************************************)
(* Properties of the flat Manager.                                         *)
(***************************************************************************)
Names(ss) == {ss[i].name : i \in 1..Len(ss)}

Entries(ss) == {ss[i] : i \in 1..Len(ss)}

NonContainment(ss) ==
    \A i, j \in 1..Len(ss) : i # j => ~Contains(ss[j].name, ss[i].name)

FullNameMatchesItself(ss, cs) ==
    \A i \in 1..Len(ss) : MatchedIdx(ss, cs, <<<<ss[i].name>>>>) = <<i>>

Folded(cs, name) == IF cs THEN name ELSE ToLower(name)

\* C3: a call made when no entry's name is a substring of another's leaves
\* the index in such a state, whether it succeeds or fails, and there a
\* query for an entry's full name matches exactly that entry.
C3_NonContainmentPreserved ==
    [][(mstate = "Ready" /\ NonContainment(stickers))
        => (NonContainment(stickers')
            /\ FullNameMatchesItself(stickers', caseSensitive))]_vars

C3_Witness ==
    /\ last.op = "add" /\ last.err = "nil"
    /\ Len(stickers) >= 2
    /\ NonContainment(stickers)

\* C4: once the Manager is constructed no two entries of the index have
\* equal names.
C4_UniqueNames ==
    mstate = "Ready" =>
        \A i, j \in 1..Len(stickers) : i # j => stickers[i].name # stickers[j].name

DerivedNamesCollide(fs, cs) ==
    \E p, q \in fs :
        /\ p # q /\ p.ext # "" /\ q.ext # ""
        /\ DeriveName(p, cs) = DeriveName(q, cs)

\* C5: NewManager returns an error and no Manager when two files under the
\* root derive the same name.
C5_LoadRejectsCollisions ==
    (last.op = "load" /\ DerivedNamesCollide(files, caseSensitive))
        => mstate # "Ready"

Coherent(ss, fs) ==
    /\ \A i \in 1..Len(ss) : ss[i].path \in fs
    /\ \A i, j \in 1..Len(ss) : i # j => ss[i].path # ss[j].path
    /\ \A p \in fs : p.ext # "" => \E i \in 1..Len(ss) : ss[i].path = p

C7_FailedAddChangesNothing ==
    [][(last'.op = "add" /\ last'.err # "nil")
        => (stickers' = stickers /\ files' = files)]_vars

C7_Witness ==
    /\ last.op = "add" /\ last.tag = "copy_failed"
    /\ last.created
    /\ Len(stickers) >= 1

NameConflicts(ss, cs, name) ==
    \E i \in 1..Len(ss) :
        \/ Contains(ss[i].name, Folded(cs, name))
        \/ Contains(Folded(cs, name), ss[i].name)

\* C8: AddSticker with a name that contains, or is contained in, an existing
\* entry's name returns a user-visible error before any HTTP request and
\* without touching the files.
C8_ConflictRejectedEarly ==
    [][(last'.op = "add" /\ NameConflicts(stickers, caseSensitive, last'.name))
        => (/\ last'.err = "user"
            /\ last'.http = 0
            /\ ~last'.created
            /\ files' = files)]_vars

C8_Witness ==
    /\ last.op = "add" /\ last.tag = "contains"
    /\ ~Contains(ToSlash(last.name), "/")
    /\ NameConflicts(stickers, caseSensitive, last.name)

\* C9: a successful AddSticker leaves the former entries as they were and
\* adds one entry with the (folded) name and the path root/name.ext; a query
\* for that name returns exactly the new entry.
C9_AddInsertsOneEntry ==
    [][(last'.op = "add" /\ last'.err = "nil")
        => \E ext \in {".png", ".jpeg", ".gif"} :
            LET new == Sticker(Folded(caseSensitive, last'.name),
                               RootPath(last'.name, ext))
            IN  /\ new \notin Entries(stickers)
                /\ \E k \in 1..Len(stickers') :
                    /\ stickers'[k] = new
                    /\ RemoveAt(stickers', k) = stickers
                /\ new.path \in files'
                /\ MatchedStickers(stickers', caseSensitive, <<<<last'.name>>>>)
                        = <<new>>]_vars

C9_Witness ==
    /\ last.op = "add" /\ last.err = "nil"
    /\ last.name = <<"A">> /\ ~caseSensitive
    /\ Len(stickers) >= 2

\* src is the full name of an entry and matches no other entry.
ExistingUniqueName(ss, cs, src) ==
    /\ Len(MatchedIdx(ss, cs, <<<<src>>>>)) = 1
    /\ ss[MatchedIdx(ss, cs, <<<<src>>>>)[1]].name = Folded(cs, src)

\* dst is no entry's name, has no separator, and neither contains nor is
\* contained in the name of an entry other than the one src names.
BrandNewName(ss, cs, src, dst) ==
    /\ Folded(cs, dst) \notin Names(ss)
    /\ ~Contains(dst, "/")
    /\ \A i \in 1..Len(ss) :
        ss[i].name # Folded(cs, src) =>
            /\ ~Contains(ss[i].name, Folded(cs, dst))
            /\ ~Contains(Folded(cs, dst), ss[i].name)

QueryCount(ss, cs, pattern) == Len(MatchedIdx(ss, cs, <<<<pattern>>>>))

Hits(ss, cs, pattern) ==
    {i \in 1..Len(ss) : Contains(ss[i].name, Folded(cs, pattern))}

\* Some entry other than the one at position target has a name that
\* contains dst or is contained in dst.
ClashesWithOther(ss, cs, target, dst) ==
    \E i \in 1..Len(ss) :
        /\ i # target
        /\ \/ Contains(ss[i].name, Folded(cs, dst))
           \/ Contains(Folded(cs, dst), ss[i].name)

\* C11: a rename whose new name contains, or is contained in, the name of
\* an entry other than the one being renamed fails and changes neither the
\* index nor the files; a new name that conflicts with no other entry (only,
\* at most, with the renamed entry's own name) passes the conflict checks.
C11_RenameConflictOnlyWithOthers ==
    [][(/\ last'.op = "rename"
        /\ Cardinality(Hits(stickers, caseSensitive, last'.src)) = 1)
        => LET target == CHOOSE i \in Hits(stickers, caseSensitive, last'.src) : TRUE
               clash  == ClashesWithOther(stickers, caseSensitive, target, last'.name)
           IN  /\ clash => /\ last'.err = "user"
                           /\ stickers' = stickers
                           /\ files' = files
               /\ (~clash /\ ~Contains(last'.name, "/"))
                    => last'.tag \in {"renamed", "move_failed"}]_vars

\* A rename was refused because the new name contains another entry's name.
C11_Witness ==
    /\ last.op = "rename" /\ last.tag = "contains"
    /\ Cardinality(Hits(stickers, caseSensitive, last.src)) = 1
    /\ LET t == CHOOSE i \in Hits(stickers, caseSensitive, last.src) : TRUE
       IN  /\ ClashesWithOther(stickers, caseSensitive, t, last.name)
           /\ Contains(Folded(caseSensitive, last.name), stickers[t].name)

\* C12: a rename whose source pattern matches no entry or several entries
\* returns a user error and changes neither the index nor the files; the
\* source lookup lets the call through exactly when one entry matches.
C12_RenameNeedsOneSource ==
    [][last'.op = "rename"
        => LET n == Cardinality(Hits(stickers, caseSensitive, last'.src))
           IN  /\ n # 1 => /\ last'.err = "user"
                           /\ stickers' = stickers
                           /\ files' = files
               /\ (n = 0) = (last'.tag = "not_found")
               /\ (n > 1) = (last'.tag = "ambiguous")]_vars

\* A rename was refused because its pattern matches two entries.
C12_Witness ==
    /\ last.op = "rename" /\ last.tag = "ambiguous" /\ last.err = "user"
    /\ last.src # <<>>
    /\ Cardinality(Hits(stickers, caseSensitive, last.src)) >= 2

(***************************************************************************)
(* The command handlers, one goroutine per inbound event, step by step.    *)
(* handleAdd and handleRename hold m.mu.Lock from before the validation    *)
(* until they return; handleList, handlePost and handleRandom hold         *)
(* m.mu.RLock; the InteractionMessageComponent branch (a click on a button *)
(* made by handlePost's handleMulti) takes no lock.                        *)
(***************************************************************************)
\* What users type: patterns that match several entries, one entry or
\* none; new names that are free or taken.
ConcPatterns == {<<"a">>, <<"a", "b">>}

ConcNewNames == {<<"b", "b">>, <<"a">>}

\* The remote server answers with a png or fails, as in Responses.
ConcResponses == {r \in Responses : r.ctype # "image/gif"}

ConcFiles == {RootPath(<<"a", "b">>, ".png"), RootPath(<<"b", "a">>, ".gif")}

(***************************************************************************)
(* CoolDownCounter: the register and the goroutines it starts.             *)
(***************************************************************************)
\* Mutant of RemoveCoolDown: the register is left as it is.
RemoveCoolDownKeeps(its, item) == its

\* delete(c.items, item)
RemoveCoolDown(its, item) == its \ {item}

\* go func() { time.Sleep(d); c.RemoveCoolDown(item) }(): one more sleeping
\* goroutine, to wake up at time due.
Sleep(sleeping, due) ==
    LET Earlier(t) == t <= due
        Later(t)   == t > due
    IN  FilterSeq(sleeping, Earlier) \o <<due>> \o FilterSeq(sleeping, Later)

\* Mutant of CoolDown: a rejected call starts a goroutine all the same.
CoolDownRestarts(its, tms, t, d, item) ==
    IF item \in its
    THEN [ok |-> FALSE, items |-> its,
          timers |-> [tms EXCEPT ![item] = Sleep(@, t + d)]]
    ELSE [ok |-> TRUE, items |-> its \cup {item},
          timers |-> [tms EXCEPT ![item] = Sleep(@, t + d)]]

\* Mutant of CoolDown: an accepted call starts no goroutine.
CoolDownNoTimer(its, tms, t, d, item) ==
    IF item \in its
    THEN [ok |-> FALSE, items |-> its, timers |-> tms]
    ELSE [ok |-> TRUE, items |-> its \cup {item}, timers |-> tms]

CoolDown(its, tms, t, d, item) ==
    IF item \in its
    THEN [ok |-> FALSE, items |-> its, timers |-> tms]
    ELSE [ok |-> TRUE, items |-> its \cup {item},
          timers |-> [tms EXCEPT ![item] = Sleep(@, t + d)]]

\* sync.RWMutex: Lock waits for the writer and all readers to leave.
CanLockAmongReaders(w, rs) == w = 0

CanLock(w, rs) == w = 0 /\ rs = {}

\* sync.RWMutex: RLock waits while a writer holds the lock or has called
\* Lock and waits for the readers to leave.
CanRLock(w, waiting) == w = 0 /\ waiting = {}

\* The handlers inside sm.Lock().
LockWaiters == {q \in Procs : pc[q] = "lock"}

\* The handlers inside sm.RLock().
RLockWaiters == {q \in Procs : pc[q] = "rlock"}

\* The goroutines that sleep for a key, and the handlers about to call
\* CoolDown for it.
MaxSleepers == 2

Sleepers(k) ==
    Len(timers[k])
    + Cardinality({q \in Procs : pc[q] \in {"cd_lock", "cd_in"} /\ loc[q].key = k})

\* The timer goroutine of key k as a holder of CoolDownCounter.mu.
TimerOf(k) == NumProcs + k

Paths(ss) == {ss[i].path : i \in 1..Len(ss)}

InitHandlers ==
    /\ mstate = "Ready"
    /\ caseSensitive = FALSE
    /\ files = ConcFiles
    /\ stickers \in loadStickers(files, caseSensitive)
    /\ last = Call("none", <<>>, <<>>, "nil", "none", 0, FALSE)
    /\ HandlersIdle
    /\ OthersIdle

\* Mutant of Return: a return path of the readers without RUnlock.
ReturnHoldsShared(p) ==
    /\ pc' = [pc EXCEPT ![p] = "idle"]
    /\ req' = [req EXCEPT ![p] = NoRequest]
    /\ loc' = [loc EXCEPT ![p] = NoLocal]
    /\ rwWriter' = IF rwWriter = p THEN 0 ELSE rwWriter
    /\ rwReaders' = IF rwWriter = p THEN RLockWaiters ELSE rwReaders

\* The deferred Unlock / RUnlock of a returning handler.  Unlock lets in
\* the readers that wait in RLock.
Return(p) ==
    /\ pc' = [pc EXCEPT ![p] = "idle"]
    /\ req' = [req EXCEPT ![p] = NoRequest]
    /\ loc' = [loc EXCEPT ![p] = NoLocal]
    /\ rwWriter' = IF rwWriter = p THEN 0 ELSE rwWriter
    /\ rwReaders' = IF rwWriter = p THEN RLockWaiters ELSE rwReaders \ {p}

Goto(p, label) ==
    /\ pc' = [pc EXCEPT ![p] = label]
    /\ UNCHANGED <<rwWriter, rwReaders>>

Frame == UNCHANGED <<mstate, caseSensitive, last, otherVars>>

\* The frame of the steps that use the cooldown register.
LockFrame ==
    UNCHANGED <<mstate, caseSensitive, last, queryVars, now, cdLast, accepted,
                coolDown, groupedVars, walkVars, fetchVars, replyVars, hintVars>>

\* An event arrives on a channel and its handler is called: a handler that
\* reads (handleList, handlePost, handleRandom), one that writes (handleAdd,
\* handleRename) or the handler of a clicked button.  No cd.CoolDown comes
\* first: the command has none, or coolDown is 0.
Request(p) ==
    /\ pc[p] = "idle"
    /\ \E first \in {"lock", "rlock", "click"} :
        /\ first = "click" => (buttons # {} /\ coolDown = 0)
        /\ pc' = [pc EXCEPT ![p] = first]
    /\ opened' = NoOpen
    /\ UNCHANGED <<stickers, files, req, loc, rwWriter, rwReaders, buttons>>
    /\ Frame

\* coolDown is not 0 and an event arrives whose handler calls cd.CoolDown
\* first: a post, a random or a click.
CoolRequest(p) ==
    /\ pc[p] = "idle"
    /\ coolDown # 0
    /\ \E k \in Keys :
        /\ Sleepers(k) < MaxSleepers
        /\ pc' = [pc EXCEPT ![p] = "cd_lock"]
        /\ loc' = [loc EXCEPT ![p].key = k, ![p].cooled = TRUE]
    /\ opened' = NoOpen
    /\ UNCHANGED <<stickers, files, req, rwWriter, rwReaders, buttons>>
    /\ Frame

\* c.mu.Lock() in CoolDown, called by the handler of the event.
CdLock(p) ==
    /\ pc[p] = "cd_lock"
    /\ cdMu = 0
    /\ cdMu' = p
    /\ pc' = [pc EXCEPT ![p] = "cd_in"]
    /\ UNCHANGED <<stickers, files, req, loc, rwWriter, rwReaders, buttons, opened,
                   items, timers>>
    /\ LockFrame

\* The body of CoolDown and its deferred c.mu.Unlock(): a rejected event is
\* answered at once, an accepted one goes on to handlePost, handleRandom
\* or the opening of the clicked button's file.  The handlers have no
\* clock: the goroutine's sleep may be over at any step.
CdCall(p) ==
    /\ pc[p] = "cd_in"
    /\ \E r \in {CoolDown(items, timers, now, coolDown, loc[p].key)} :
        /\ items' = r.items
        /\ timers' = r.timers
        /\ IF r.ok
           THEN /\ \E next \in {"rlock"} \cup (IF buttons # {} THEN {"click"} ELSE {}) :
                        pc' = [pc EXCEPT ![p] = next]
                /\ UNCHANGED loc
           ELSE /\ pc' = [pc EXCEPT ![p] = "idle"]
                /\ loc' = [loc EXCEPT ![p] = NoLocal]
    /\ cdMu' = 0
    /\ UNCHANGED <<stickers, files, req, rwWriter, rwReaders, buttons, opened>>
    /\ LockFrame

\* sm.Lock() in handleAdd and handleRename.
WLock(p) ==
    /\ pc[p] = "lock"
    /\ CanLock(rwWriter, rwReaders)
    /\ rwWriter' = p
    /\ \/ \E name \in ConcNewNames :
            /\ req' = [req EXCEPT ![p] = [cmd |-> "add", name |-> name,
                                          dst |-> <<>>, ext |-> ""]]
            /\ pc' = [pc EXCEPT ![p] = "add_check"]
       \/ \E src \in ConcPatterns, dst \in ConcNewNames :
            /\ req' = [req EXCEPT ![p] = [cmd |-> "rename", name |-> src,
                                          dst |-> dst, ext |-> ""]]
            /\ pc' = [pc EXCEPT ![p] = "ren_check"]
    /\ UNCHANGED <<stickers, files, loc, rwReaders, buttons, opened>>
    /\ Frame

\* sm.RLock() in handleList, handlePost and handleRandom.
RLock(p) ==
    /\ pc[p] = "rlock"
    /\ p \in rwReaders \/ CanRLock(rwWriter, LockWaiters)
    /\ rwReaders' = rwReaders \cup {p}
    /\ pc' = [pc EXCEPT ![p] = "match"]
    /\ \E cmd \in {"list", "post", "random"}, pattern \in ConcPatterns :
            /\ cmd # "post" => pattern = <<"a">>
            /\ loc[p].cooled = (cmd # "list" /\ coolDown # 0)
            /\ req' = [req EXCEPT ![p] = [cmd |-> cmd, name |-> pattern,
                                          dst |-> <<>>, ext |-> ""]]
    /\ UNCHANGED <<stickers, files, loc, rwWriter, buttons, opened>>
    /\ Frame

\* handleList: Stickers() or MatchedStickers, the reply, RUnlock.
ListRead(p) ==
    /\ pc[p] = "match" /\ req[p].cmd = "list"
    /\ opened' = [how |-> "list", shared |-> p \in rwReaders, indexed |-> TRUE]
    /\ Return(p)
    /\ UNCHANGED <<stickers, files, buttons>>
    /\ Frame

\* handlePost up to os.Open: no match or several matches end the handler;
\* handleMulti (slash command only) shows one button per match, whose
\* CustomID is the sticker's path, and goes on to cd.RemoveCoolDown for the
\* event's ChannelID.
PostMatch(p) ==
    /\ pc[p] = "match" /\ req[p].cmd = "post"
    /\ LET matched == MatchedIdx(stickers, caseSensitive, <<<<req[p].name>>>>)
       IN  \/ /\ Len(matched) = 0
              /\ Return(p)
              /\ UNCHANGED buttons
           \/ /\ Len(matched) > 1
              /\ \E handleMulti \in BOOLEAN :
                    IF handleMulti
                    THEN /\ buttons' = buttons \cup {stickers[matched[k]].path :
                                                      k \in 1..Len(matched)}
                         /\ \E k \in (IF loc[p].cooled THEN {loc[p].key} ELSE Keys) :
                                loc' = [loc EXCEPT ![p].key = k]
                         /\ Goto(p, "rm_lock")
                         /\ UNCHANGED req
                    ELSE /\ buttons' = buttons
                         /\ Return(p)
           \/ /\ Len(matched) = 1
              /\ loc' = [loc EXCEPT ![p].target = matched[1]]
              /\ Goto(p, "open")
              /\ UNCHANGED <<req, buttons>>
    /\ UNCHANGED <<stickers, files, opened>>
    /\ Frame

\* handleRandom up to os.Open: one of the matches, chosen at random.
RandomMatch(p) ==
    /\ pc[p] = "match" /\ req[p].cmd = "random"
    /\ LET matched == MatchedIdx(stickers, caseSensitive, <<<<req[p].name>>>>)
       IN  \/ /\ Len(matched) = 0
              /\ Return(p)
           \/ /\ \E k \in 1..Len(matched) :
                    loc' = [loc EXCEPT ![p].target = matched[k]]
              /\ Goto(p, "open")
              /\ UNCHANGED req
    /\ UNCHANGED <<stickers, files, buttons, opened>>
    /\ Frame

OpenEvent(p, how, path) ==
    [how |-> how, shared |-> p \in rwReaders, indexed |-> path \in Paths(stickers)]

\* os.Open(sticker.Path()) and postSticker in handlePost and handleRandom.
ServeOpen(p) ==
    /\ pc[p] = "open"
    /\ opened' = OpenEvent(p, req[p].cmd, stickers[loc[p].target].path)
    /\ Return(p)
    /\ UNCHANGED <<stickers, files, buttons>>
    /\ Frame

\* InteractionMessageComponent: os.Open(CustomID) of the clicked button.
Click(p) ==
    /\ pc[p] = "click"
    /\ \E path \in buttons : opened' = OpenEvent(p, "click", path)
    /\ Return(p)
    /\ UNCHANGED <<stickers, files, buttons>>
    /\ Frame

\* c.mu.Lock() in RemoveCoolDown, called by handleMulti inside handlePost.
MultiLock(p) ==
    /\ pc[p] = "rm_lock"
    /\ cdMu = 0
    /\ cdMu' = p
    /\ pc' = [pc EXCEPT ![p] = "rm_in"]
    /\ UNCHANGED <<stickers, files, req, loc, rwWriter, rwReaders, buttons, opened,
                   items, timers>>
    /\ LockFrame

\* delete(c.items, item), the deferred c.mu.Unlock() and the return of
\* handlePost.
MultiRemove(p) ==
    /\ pc[p] = "rm_in"
    /\ items' = RemoveCoolDown(items, loc[p].key)
    /\ cdMu' = 0
    /\ Return(p)
    /\ UNCHANGED <<stickers, files, buttons, opened, timers>>
    /\ LockFrame

\* time.Sleep(d) is over: c.mu.Lock() in the goroutine's RemoveCoolDown.
TimerLock(k) ==
    /\ Len(timers[k]) > 0
    /\ cdMu = 0
    /\ cdMu' = TimerOf(k)
    /\ UNCHANGED <<stickers, files, handlerVars, items, timers>>
    /\ LockFrame

\* delete(c.items, item) and the deferred c.mu.Unlock() in the goroutine.
TimerRemove(k) ==
    /\ cdMu = TimerOf(k)
    /\ items' = RemoveCoolDown(items, k)
    /\ timers' = [timers EXCEPT ![k] = Tail(@)]
    /\ cdMu' = 0
    /\ UNCHANGED <<stickers, files, handlerVars>>
    /\ LockFrame

\* A nil slot of m.stickers.
NilSticker == Sticker(<<"?">>, NoPath)

\* AddSticker, the validation of the name.
AddCheck(p) ==
    /\ pc[p] = "add_check"
    /\ LET name == req[p].name
       IN  IF \/ Contains(ToSlash(name), "/")
              \/ Len(MatchedIdx(stickers, caseSensitive, <<<<name>>>>)) # 0
              \/ Len(containedIdx(stickers, caseSensitive, name)) # 0
           THEN Return(p)
           ELSE Goto(p, "add_fetch") /\ UNCHANGED <<req, loc>>
    /\ UNCHANGED <<stickers, files, buttons, opened>>
    /\ Frame

\* AddSticker, http.Head, the header checks and http.Get.
AddFetch(p) ==
    /\ pc[p] = "add_fetch"
    /\ \E resp \in ConcResponses :
        IF \/ ~resp.head
           \/ ~ValidCType(resp.ctype)
           \/ ~Atoi(resp.clen).ok
           \/ Atoi(resp.clen).val > AddStickerSizeLimit
           \/ ~resp.get
        THEN Return(p)
        ELSE /\ req' = [req EXCEPT ![p].ext = CTypeExt(resp.ctype)]
             /\ Goto(p, "add_create")
             /\ UNCHANGED loc
    /\ UNCHANGED <<stickers, files, buttons, opened>>
    /\ Frame

\* AddSticker, os.Create.
AddCreate(p) ==
    /\ pc[p] = "add_create"
    /\ \E ok \in BOOLEAN :
        IF ok
        THEN /\ files' = createFile(files, RootPath(req[p].name, req[p].ext))
             /\ Goto(p, "add_copy")
             /\ UNCHANGED <<req, loc>>
        ELSE Return(p) /\ UNCHANGED files
    /\ UNCHANGED <<stickers, buttons, opened>>
    /\ Frame

\* AddSticker, io.Copy; on failure the deferred os.Remove.
AddCopy(p) ==
    /\ pc[p] = "add_copy"
    /\ LET path == RootPath(req[p].name, req[p].ext)
       IN  \E ok \in BOOLEAN :
            IF ok
            THEN /\ loc' = [loc EXCEPT ![p].entry =
                                Sticker(foldName(caseSensitive, req[p].name), path)]
                 /\ Goto(p, "ins_grow")
                 /\ UNCHANGED <<req, files>>
            ELSE /\ files' = removeFile(files, path)
                 /\ Return(p)
    /\ UNCHANGED <<stickers, buttons, opened>>
    /\ Frame

\* RenameSticker, the validation of src and dst.
RenCheck(p) ==
    /\ pc[p] = "ren_check"
    /\ LET srcMatched == MatchedIdx(stickers, caseSensitive, <<<<req[p].name>>>>)
           dstMatched == MatchedIdx(stickers, caseSensitive, <<<<req[p].dst>>>>)
           NotTarget(i) == i # srcMatched[1]
           others == FilterSeq(containedIdx(stickers, caseSensitive, req[p].dst),
                               NotTarget)
       IN  IF \/ Len(srcMatched) # 1
              \/ Contains(ToSlash(req[p].dst), "/")
              \/ Len(dstMatched) > 1
              \/ (Len(dstMatched) = 1 /\ dstMatched[1] # srcMatched[1])
              \/ Len(others) # 0
           THEN Return(p)
           ELSE /\ loc' = [loc EXCEPT ![p].target = srcMatched[1]]
                /\ Goto(p, "ren_move")
                /\ UNCHANGED req
    /\ UNCHANGED <<stickers, files, buttons, opened>>
    /\ Frame

\* RenameSticker, os.Rename.
RenMove(p) ==
    /\ pc[p] = "ren_move"
    /\ LET s == stickers[loc[p].target]
       IN  \E ok \in BOOLEAN :
            IF ok
            THEN /\ files' = moveFile(files, s.path, RootPath(req[p].dst, Ext(s)))
                 /\ Goto(p, "ren_update")
                 /\ UNCHANGED <<req, loc>>
            ELSE Return(p) /\ UNCHANGED files
    /\ UNCHANGED <<stickers, buttons, opened>>
    /\ Frame

\* RenameSticker, the new name and path are written into the entry.
RenUpdate(p) ==
    /\ pc[p] = "ren_update"
    /\ LET s == stickers[loc[p].target]
       IN  stickers' = [stickers EXCEPT ![loc[p].target] =
                renameEntry(s, foldName(caseSensitive, req[p].dst),
                            RootPath(req[p].dst, Ext(s)))]
    /\ Goto(p, "ren_remove")
    /\ UNCHANGED <<files, req, loc, buttons, opened>>
    /\ Frame

\* RenameSticker, the entry is taken out of m.stickers.
RenRemove(p) ==
    /\ pc[p] = "ren_remove"
    /\ loc' = [loc EXCEPT ![p].entry = stickers[loc[p].target]]
    /\ stickers' = RemoveAt(stickers, loc[p].target)
    /\ Goto(p, "ins_grow")
    /\ UNCHANGED <<files, req, buttons, opened>>
    /\ Frame

\* insertSticker, sort.Find, append(m.stickers, nil) and the shifting copy.
InsGrow(p) ==
    /\ pc[p] = "ins_grow"
    /\ LET f == SortFind(stickers, loc[p].entry.name)
       IN  IF f.found
           THEN Return(p) /\ UNCHANGED stickers
           ELSE /\ stickers' = InsertAt(stickers, f.i + 1,
                                  IF f.i < Len(stickers) THEN stickers[f.i + 1]
                                  ELSE NilSticker)
                /\ loc' = [loc EXCEPT ![p].at = f.i + 1]
                /\ Goto(p, "ins_set")
                /\ UNCHANGED req
    /\ UNCHANGED <<files, buttons, opened>>
    /\ Frame

\* insertSticker, m.stickers[i] = s, and the return of the handler.
InsSet(p) ==
    /\ pc[p] = "ins_set"
    /\ stickers' = [stickers EXCEPT ![loc[p].at] = loc[p].entry]
    /\ Return(p)
    /\ UNCHANGED <<files, buttons, opened>>
    /\ Frame

NextHandlers ==
    \/ \E p \in Procs : Request(p)
    \/ \E p \in Procs : WLock(p)
    \/ \E p \in Procs : RLock(p)
    \/ \E p \in Procs : ListRead(p)
    \/ \E p \in Procs : PostMatch(p)
    \/ \E p \in Procs : RandomMatch(p)
    \/ \E p \in Procs : ServeOpen(p)
    \/ \E p \in Procs : Click(p)
    \/ \E p \in Procs : AddCheck(p)
    \/ \E p \in Procs : AddFetch(p)
    \/ \E p \in Procs : AddCreate(p)
    \/ \E p \in Procs : AddCopy(p)
    \/ \E p \in Procs : RenCheck(p)
    \/ \E p \in Procs : RenMove(p)
    \/ \E p \in Procs : RenUpdate(p)
    \/ \E p \in Procs : RenRemove(p)
    \/ \E p \in Procs : InsGrow(p)
    \/ \E p \in Procs : InsSet(p)
    \/ \E p \in Procs : MultiLock(p)
    \/ \E p \in Procs : MultiRemove(p)

HandlersSpec == InitHandlers /\ [][NextHandlers]_vars

\* The handlers with a cooldown configured, and the goroutines CoolDown
\* starts.
InitLock ==
    /\ mstate = "Ready"
    /\ caseSensitive = FALSE
    /\ files = ConcFiles
    /\ stickers \in loadStickers(files, caseSensitive)
    /\ last = Call("none", <<>>, <<>>, "nil", "none", 0, FALSE)
    /\ HandlersIdle
    /\ query = NoQuery
    /\ items = {}
    /\ timers = [k \in Keys |-> <<>>]
    /\ now = 0
    /\ cdLast = NoCoolDown
    /\ accepted = [k \in Keys |-> NeverAccepted]
    /\ cdMu = 0
    /\ coolDown = MaxDuration
    /\ GroupedIdle
    /\ walk = NoWalkFault
    /\ CallersIdle

LockNext ==
    \/ NextHandlers
    \/ \E p \in Procs : CoolRequest(p)
    \/ \E p \in Procs : CdLock(p)
    \/ \E p \in Procs : CdCall(p)
    \/ \E k \in Keys : TimerLock(k)
    \/ \E k \in Keys : TimerRemove(k)

LockSpec == InitLock /\ [][LockNext]_vars

\* The steps of handler p that wait for no lock: matching, the external
\* I/O with either outcome, the updates of the index, the bodies of
\* CoolDown and RemoveCoolDown.
HandlerStep(p) ==
    \/ ListRead(p) \/ PostMatch(p) \/ RandomMatch(p) \/ ServeOpen(p) \/ Click(p)
    \/ AddCheck(p) \/ AddFetch(p) \/ AddCreate(p) \/ AddCopy(p)
    \/ RenCheck(p) \/ RenMove(p) \/ RenUpdate(p) \/ RenRemove(p)
    \/ InsGrow(p) \/ InsSet(p)
    \/ CdCall(p) \/ MultiRemove(p)

\* The Go scheduler runs every goroutine that can run and external I/O
\* comes back.  A reader let in by Unlock stays let in until it runs.
\* sync.Mutex (c.mu, and the mutex the writers of a sync.RWMutex queue on)
\* hands the lock to a goroutine that has waited long, so a goroutine that
\* finds the lock free again and again gets it.
FairLockSpec ==
    /\ LockSpec
    /\ \A p \in Procs : WF_vars(HandlerStep(p))
    /\ \A p \in Procs : WF_vars(RLock(p))
    /\ \A p \in Procs : SF_vars(WLock(p))
    /\ \A p \in Procs : SF_vars(CdLock(p))
    /\ \A p \in Procs : SF_vars(MultiLock(p))
    /\ \A k \in Keys : WF_vars(TimerRemove(k))

(***************************************************************************)
(* Properties of the handlers.                                             *)
(***************************************************************************)
InWrite(p) ==
    pc[p] \in {"add_check", "add_fetch", "add_create", "add_copy",
               "ren_check", "ren_move", "ren_update", "ren_remove",
               "ins_grow", "ins_set"}

InRead(p) == pc[p] \in {"match", "open", "rm_lock", "rm_in"}

\* The index is not in the middle of a mutation.
Settled ==
    /\ NilSticker \notin Entries(stickers)
    /\ IsSorted(stickers)
    /\ Coherent(stickers, files)

\* C1: at most one handler is inside AddSticker/RenameSticker, no handler
\* is in a read section meanwhile, and a handler in a read section sees no
\* half-inserted entry and no index without the entry being renamed.
C1_WritersExcludeReaders ==
    /\ \A p, q \in Procs : (p # q /\ InWrite(p)) => (~InWrite(q) /\ ~InRead(q))
    /\ \A p \in Procs : InWrite(p) => rwWriter = p
    /\ \A p \in Procs : InRead(p) => Settled

C1_Witness ==
    \E p, q \in Procs :
        /\ pc[p] = "ins_grow" /\ req[p].cmd = "rename"
        /\ pc[q] = "rlock"
        /\ ~Settled

\* A handler that is not running holds no lock, a handler inside sm.Lock()
\* holds neither lock, and c.mu is held only inside CoolDown or
\* RemoveCoolDown.
LockDiscipline ==
    /\ \A p \in Procs :
            pc[p] = "idle" => (rwWriter # p /\ p \notin rwReaders /\ cdMu # p)
    /\ \A p \in Procs :
            pc[p] = "lock" => (rwWriter # p /\ p \notin rwReaders /\ cdMu # p)
    /\ \A p \in Procs : pc[p] = "rlock" => (rwWriter # p /\ cdMu # p)
    /\ \A p \in Procs : cdMu = p => pc[p] \in {"cd_in", "rm_in"}
    /\ \A p \in Procs : pc[p] = "rm_in" => (cdMu = p /\ p \in rwReaders)

\* A handler that calls sm.Lock() or sm.RLock() holds no lock at the call.
CallsHoldNothing ==
    \A p \in Procs :
        (pc'[p] \in {"lock", "rlock"} /\ pc[p] # pc'[p])
            => (rwWriter' # p /\ p \notin rwReaders' /\ cdMu' # p)

\* A handler is running or a goroutine of the register is asleep.
Busy ==
    \/ \E p \in Procs : pc[p] # "idle"
    \/ \E k \in Keys : Len(timers[k]) > 0

\* A step other than the arrival of an event.
Progress ==
    \/ \E p \in Procs : HandlerStep(p)
    \/ \E p \in Procs : WLock(p) \/ RLock(p) \/ CdLock(p) \/ MultiLock(p)
    \/ \E k \in Keys : TimerLock(k) \/ TimerRemove(k)

\* C39: a handler that returned holds neither the Manager lock nor c.mu,
\* a handler holds no lock when it calls sm.Lock() or sm.RLock(), c.mu is
\* held only inside CoolDown / RemoveCoolDown (RemoveCoolDown possibly under
\* the shared lock); whenever a handler runs or a goroutine sleeps some
\* step can be taken, and every handler that was called returns.
C39_NoDeadlockHandlersFinish ==
    /\ []LockDiscipline
    /\ [][CallsHoldNothing]_vars
    /\ [](Busy => ENABLED Progress)
    /\ \A p \in Procs : (pc[p] # "idle") ~> (pc[p] = "idle")

\* handleMulti is inside RemoveCoolDown under the shared lock while a
\* writer waits in sm.Lock() and the goroutine of the key is asleep.
C39_Witness ==
    \E p, q \in Procs :
        /\ pc[p] = "rm_in" /\ cdMu = p /\ p \in rwReaders
        /\ loc[p].cooled /\ Len(timers[loc[p].key]) > 0
        /\ pc[q] = "lock"

\* C2: every os.Open of a sticker file for serving happens under the shared
\* lock, with a path that is then the path of an entry of the index.
C2_OpenUnderSharedLock ==
    opened.how \in {"post", "random", "click"} => (opened.shared /\ opened.indexed)


(***************************************************************************)
(* MatchedStickers as a function of the index and its argument: the index  *)
(* is what a load leaves, the argument any short list of pattern groups.   *)
(***************************************************************************)
MaxGroups == 2
MaxPatterns == 2

QueryPatterns == {<<"a">>, <<"B">>}

PatternGroups == UNION {[1..n -> QueryPatterns] : n \in 0..MaxPatterns}

PatternGroupLists == UNION {[1..n -> PatternGroups] : n \in 0..MaxGroups}

QueryFiles ==
    {RootPath(<<"a">>, ".png"), RootPath(<<"a", "b">>, ".png"),
     RootPath(<<"b">>, ".gif"), RootPath(<<"B">>, ".png"),
     RootPath(<<"b", "a">>, ".png")}

InitQuery ==
    /\ mstate = "Ready"
    /\ caseSensitive \in BOOLEAN
    /\ files \in {F \in SUBSET QueryFiles : Cardinality(F) <= MaxFiles}
    /\ stickers \in loadStickers(files, caseSensitive)
    /\ last = Call("none", <<>>, <<>>, "nil", "none", 0, FALSE)
    /\ HandlersIdle
    /\ OthersIdle

\* m.MatchedStickers(patternGroups): reads m.stickers and m.caseSensitive,
\* writes only the caller's pattern slices.
DoMatchedStickers ==
    /\ query.op = "none"
    /\ \E pgs \in PatternGroupLists :
        query' = [op |-> "match", groups |-> pgs,
                  after |-> PatternsAfter(caseSensitive, pgs),
                  result |-> MatchedIdx(stickers, caseSensitive, pgs)]
    /\ UNCHANGED <<managerVars, handlerVars, coolVars, groupedVars, walkVars, fetchVars,
                   replyVars, hintVars>>

QueryNext == DoMatchedStickers

QuerySpec == InitQuery /\ [][QueryNext]_vars

\* Positions of the entries that satisfy some group of the list: every
\* pattern of the group, folded as the index folds, is inside the name.
SatisfySomeGroup(ss, cs, pgs) ==
    {i \in 1..Len(ss) :
        \E g \in 1..Len(pgs) :
            \A k \in 1..Len(pgs[g]) :
                Contains(ss[i].name, Folded(cs, pgs[g][k]))}

Range(seq) == {seq[k] : k \in 1..Len(seq)}

NonEmptyGroups(pgs) ==
    LET NonEmpty(pg) == Len(pg) # 0
    IN  FilterSeq(pgs, NonEmpty)

\* C14 as stated: for every non-empty list of pattern groups, an empty group
\* next to non-empty ones included, the call returns exactly the entries
\* for which some group of the list has all its patterns inside the name.
C14_SomeGroupAllPatterns ==
    (query.op = "match" /\ Len(query.groups) > 0)
        => Range(query.result) = SatisfySomeGroup(stickers, caseSensitive, query.groups)

\* C15 as stated: the call returns every entry if and only if no group is
\* passed or all passed groups are empty, and otherwise returns what the
\* same query returns with the empty groups deleted.
C15_AllEntriesIffNoPattern ==
    query.op = "match"
        => /\ (query.result = Indices(stickers))
                = (NonEmptyGroups(query.groups) = <<>>)
           /\ query.result = MatchedIdx(stickers, caseSensitive,
                                        NonEmptyGroups(query.groups))

\* C15 amended: the call returns every entry if no group is passed or all
\* passed groups are empty, and otherwise returns what the same query
\* returns with the empty groups deleted.
C15_EmptyGroupsIgnored ==
    query.op = "match"
        => /\ NonEmptyGroups(query.groups) = <<>>
                => query.result = Indices(stickers)
           /\ query.result = MatchedIdx(stickers, caseSensitive,
                                        NonEmptyGroups(query.groups))

\* An empty group stood next to a non-empty one and some entry was left out.
C15_Witness ==
    /\ query.op = "match"
    /\ \E g \in 1..Len(query.groups) : Len(query.groups[g]) = 0
    /\ \E g \in 1..Len(query.groups) : Len(query.groups[g]) # 0
    /\ Range(query.result) # {}
    /\ Range(query.result) # 1..Len(stickers)

\* C16: the call returns the matching entries as a subsequence of the
\* index, each entry at most once, in ascending byte-wise name order, and
\* leaves the index and the files as they were.
C16_ResultOrderedIndexKept ==
    [][query'.op = "match"
        => /\ stickers' = stickers
           /\ files' = files
           /\ \A k \in 1..Len(query'.result) :
                query'.result[k] \in 1..Len(stickers)
           /\ \A k, l \in 1..Len(query'.result) :
                k < l => /\ query'.result[k] < query'.result[l]
                         /\ Compare(stickers[query'.result[k]].name,
                                    stickers[query'.result[l]].name) <= 0]_vars

\* Two groups both matched an entry, and two entries were returned.
C16_Witness ==
    /\ query.op = "match"
    /\ Len(query.result) >= 2
    /\ \E i \in Range(query.result) :
        \E g, h \in 1..Len(query.groups) :
            /\ g # h
            /\ Len(query.groups[g]) # 0 /\ Len(query.groups[h]) # 0
            /\ i \in SatisfySomeGroup(stickers, caseSensitive, <<query.groups[g]>>)
            /\ i \in SatisfySomeGroup(stickers, caseSensitive, <<query.groups[h]>>)

(***************************************************************************)
(* CoolDownCounter.  CoolDown and RemoveCoolDown run under c.mu, so each   *)
(* is one step; the goroutine CoolDown starts sleeps for d and then calls  *)
(* RemoveCoolDown.  Time is discrete, a goroutine whose sleep is over runs  *)
(* before the clock moves on, and no two sleeping goroutines of a key wake *)
(* up at the same time.                                                    *)
(***************************************************************************)
InitCoolDown ==
    /\ mstate = "Uninitialized"
    /\ caseSensitive = FALSE
    /\ stickers = <<>>
    /\ files = {}
    /\ last = Call("none", <<>>, <<>>, "nil", "none", 0, FALSE)
    /\ HandlersIdle
    /\ OthersIdle

CoolDownFrame ==
    UNCHANGED <<managerVars, handlerVars, queryVars, groupedVars, walkVars, fetchVars,
                replyVars, hintVars, cdMu, coolDown>>

\* cd.CoolDown(coolDown, ChannelID) by a handler.
DoCoolDown(k) ==
    /\ \E d \in Durations :
        LET r == CoolDown(items, timers, now, d, k)
        IN  /\ now + d <= MaxTime
            /\ \A j \in 1..Len(timers[k]) : timers[k][j] # now + d
            /\ items' = r.items
            /\ timers' = r.timers
            /\ cdLast' = [op |-> "cooldown", item |-> k, ok |-> r.ok]
            /\ accepted' = IF r.ok
                           THEN [accepted EXCEPT ![k] =
                                    [until |-> now + d, touched |-> FALSE]]
                           ELSE accepted
    /\ now' = now
    /\ CoolDownFrame

\* cd.RemoveCoolDown(ChannelID) by a handler (the post command after it
\* has shown several matches).
DoRemoveCoolDown(k) ==
    /\ items' = RemoveCoolDown(items, k)
    /\ cdLast' = [op |-> "remove", item |-> k, ok |-> TRUE]
    /\ accepted' = IF accepted[k].until >= 0
                   THEN [accepted EXCEPT ![k].touched = TRUE]
                   ELSE accepted
    /\ UNCHANGED <<timers, now>>
    /\ CoolDownFrame

\* time.Sleep(d) is over: the goroutine calls c.RemoveCoolDown(item).
Expire(k) ==
    /\ \E j \in 1..Len(timers[k]) :
        /\ timers[k][j] <= now
        /\ timers' = [timers EXCEPT ![k] = RemoveAt(@, j)]
    /\ items' = RemoveCoolDown(items, k)
    /\ cdLast' = [op |-> "expire", item |-> k, ok |-> TRUE]
    /\ UNCHANGED <<now, accepted>>
    /\ CoolDownFrame

Tick ==
    /\ now < MaxTime
    /\ \A k \in Keys : \A j \in 1..Len(timers[k]) : timers[k][j] > now
    /\ now' = now + 1
    /\ cdLast' = [op |-> "tick", item |-> 0, ok |-> TRUE]
    /\ UNCHANGED <<items, timers, accepted>>
    /\ CoolDownFrame

CoolDownNext ==
    \/ \E k \in Keys : DoCoolDown(k)
    \/ \E k \in Keys : DoRemoveCoolDown(k)
    \/ \E k \in Keys : Expire(k)
    \/ Tick

CoolDownSpec == InitCoolDown /\ [][CoolDownNext]_vars

\* The Go scheduler runs a goroutine whose sleep is over, sync.Mutex hands
\* the lock to a waiting goroutine, and time passes.
FairCoolDownSpec ==
    /\ CoolDownSpec
    /\ WF_vars(Tick)
    /\ \A k \in Keys : WF_vars(Expire(k))

\* C17: CoolDown for an absent key returns true and makes the key present;
\* CoolDown for a present key returns false and changes neither the
\* register nor the sleeping goroutines and their wake-up times.
C17_AcceptOnceThenReject ==
    [][cdLast'.op = "cooldown"
        => LET k == cdLast'.item
           IN  IF k \in items
               THEN /\ ~cdLast'.ok
                    /\ items' = items
                    /\ timers' = timers
               ELSE /\ cdLast'.ok
                    /\ k \in items']_vars

\* A CoolDown was rejected while a goroutine for the key was asleep.
C17_Witness ==
    /\ cdLast.op = "cooldown" /\ ~cdLast.ok
    /\ cdLast.item \in items
    /\ Len(timers[cdLast.item]) = 1
    /\ now < accepted[cdLast.item].until
    /\ ~accepted[cdLast.item].touched

\* C18 as stated: once CoolDown(d, K) has returned true at time t and no
\* caller has removed K since, K is present at every time before t + d and
\* absent after t + d.
C18_PresentForFullDuration ==
    \A k \in Keys :
        (accepted[k].until >= 0 /\ ~accepted[k].touched)
            => /\ now < accepted[k].until => k \in items
               /\ now > accepted[k].until => k \notin items

\* C19 as stated: each key has at most one sleeping expiry goroutine.
C19_OneTimerPerKey ==
    \A k \in Keys : Len(timers[k]) <= 1

\* C20: a present key always has a sleeping expiry goroutine, and under
\* fair scheduling every present key is eventually absent.
C20_EveryKeyExpires ==
    /\ [](\A k \in Keys : k \in items => Len(timers[k]) >= 1)
    /\ \A k \in Keys : (k \in items) ~> (k \notin items)

\* A key was accepted, its goroutine woke up and removed it, and no caller
\* had removed it before.
C20_Witness ==
    /\ cdLast.op = "expire"
    /\ cdLast.item \notin items
    /\ ~accepted[cdLast.item].touched
    /\ now = accepted[cdLast.item].until
    /\ timers[cdLast.item] = <<>>

RECURSIVE Split(_, _)
Split(s, sep) ==
    IF ~\E i \in 1..Len(s) : s[i] = sep THEN <<s>>
    ELSE LET i == CHOOSE i \in 1..Len(s) :
                    s[i] = sep /\ \A j \in 1..(i - 1) : s[j] # sep
         IN  <<SubSeq(s, 1, i - 1)>> \o Split(SubSeq(s, i + 1, Len(s)), sep)

HasPrefix(s, prefix) ==
    Len(prefix) <= Len(s) /\ SubSeq(s, 1, Len(prefix)) = prefix

\* A Go string is a sequence of bytes.  The bytes of the model: the ASCII
\* letters a and b and the bracket [, the two bytes C3 A9 that encode the
\* code point E9, and FF and FE, which occur in no UTF-8 encoding.
\* []rune(s): the code points of s, U+FFFD for every byte that is not part
\* of a valid encoding.
RECURSIVE Runes(_)
Runes(s) ==
    IF s = <<>> THEN <<>>
    ELSE IF Head(s) \in {"a", "b", "[", "]"}
        THEN <<Head(s)>> \o Runes(Tail(s))
    ELSE IF Head(s) = "C3" /\ Len(s) >= 2 /\ s[2] = "A9"
        THEN <<"E9">> \o Runes(Tail(Tail(s)))
    ELSE <<"FFFD">> \o Runes(Tail(s))

\* string(rs): the UTF-8 encoding of the code points rs.
RECURSIVE EncodeRunes(_)
EncodeRunes(rs) ==
    IF rs = <<>> THEN <<>>
    ELSE (CASE Head(rs) = "E9"   -> <<"C3", "A9">>
            [] Head(rs) = "FFFD" -> <<"EF", "BF", "BD">>
            [] OTHER             -> <<Head(rs)>>) \o EncodeRunes(Tail(rs))

\* The loop of countUniqLenTwo over the code points ra and rb.
RECURSIVE countUniqLenLoop(_, _)
countUniqLenLoop(ra, rb) ==
    IF ra # <<>> /\ rb # <<>> /\ Head(ra) = Head(rb)
    THEN 1 + countUniqLenLoop(Tail(ra), Tail(rb))
    ELSE 0

countUniqLenTwo(a, b) == countUniqLenLoop(Runes(a), Runes(b))

\* withHint: the name with the part after the first uniqLen code points in
\* brackets.  rs[uniqLen:] panics when uniqLen is beyond the end of rs.
withHint(s, uniqLen) ==
    LET rs == Runes(s)
    IN  IF Len(rs) = uniqLen THEN [panic |-> FALSE, out |-> s]
        ELSE IF uniqLen > Len(rs) THEN [panic |-> TRUE, out |-> <<>>]
        ELSE [panic |-> FALSE,
              out |-> EncodeRunes(SubSeq(rs, 1, uniqLen)) \o <<"[">>
                        \o EncodeRunes(SubSeq(rs, uniqLen + 1, Len(rs))) \o <<"]">>]

Max(S) == CHOOSE x \in S : \A y \in S : y <= x

\* The first pair i < j, in the order of the two loops of countUniqLen,
\* that Clash holds for.
FirstPair(Pairs) ==
    CHOOSE ij \in Pairs :
        \A kl \in Pairs : ij[1] < kl[1] \/ (ij[1] = kl[1] /\ ij[2] <= kl[2])

\* Mutant of countUniqLen: only equal strings are an error, a string that
\* is a prefix of another one is let through.
countUniqLenEqualOnly(strs) ==
    LET Clash(i, j) == strs[i] = strs[j]
        Pairs == {ij \in (1..Len(strs)) \X (1..Len(strs)) :
                    ij[1] < ij[2] /\ Clash(ij[1], ij[2])}
    IN  IF Pairs # {}
        THEN [err |-> "countUniqLenError", ret |-> <<>>,
              str1 |-> strs[FirstPair(Pairs)[1]], str2 |-> strs[FirstPair(Pairs)[2]]]
        ELSE [err |-> "nil",
              ret |-> [i \in 1..Len(strs) |->
                        Max({0} \cup {countUniqLenTwo(strs[i], strs[j]) + 1 :
                                        j \in (1..Len(strs)) \ {i}})],
              str1 |-> <<>>, str2 |-> <<>>]

\* Mutant of countUniqLen: the hint is the length of the longest common
\* prefix, without the one more code point that tells the names apart.
countUniqLenShort(strs) ==
    LET Clash(i, j) == \/ strs[i] = strs[j]
                       \/ HasPrefix(strs[i], strs[j])
                       \/ HasPrefix(strs[j], strs[i])
        Pairs == {ij \in (1..Len(strs)) \X (1..Len(strs)) :
                    ij[1] < ij[2] /\ Clash(ij[1], ij[2])}
    IN  IF Pairs # {}
        THEN [err |-> "countUniqLenError", ret |-> <<>>,
              str1 |-> strs[FirstPair(Pairs)[1]], str2 |-> strs[FirstPair(Pairs)[2]]]
        ELSE [err |-> "nil",
              ret |-> [i \in 1..Len(strs) |->
                        Max({0} \cup {countUniqLenTwo(strs[i], strs[j]) :
                                        j \in (1..Len(strs)) \ {i}})],
              str1 |-> <<>>, str2 |-> <<>>]

countUniqLen(strs) ==
    LET Clash(i, j) == \/ strs[i] = strs[j]
                       \/ HasPrefix(strs[i], strs[j])
                       \/ HasPrefix(strs[j], strs[i])
        Pairs == {ij \in (1..Len(strs)) \X (1..Len(strs)) :
                    ij[1] < ij[2] /\ Clash(ij[1], ij[2])}
    IN  IF Pairs # {}
        THEN [err |-> "countUniqLenError", ret |-> <<>>,
              str1 |-> strs[FirstPair(Pairs)[1]], str2 |-> strs[FirstPair(Pairs)[2]]]
        ELSE [err |-> "nil",
              ret |-> [i \in 1..Len(strs) |->
                        Max({0} \cup {countUniqLenTwo(strs[i], strs[j]) + 1 :
                                        j \in (1..Len(strs)) \ {i}})],
              str1 |-> <<>>, str2 |-> <<>>]

ExtOrd(ext) == CASE ext = "gif" -> 1 [] ext = "jpeg" -> 2 [] OTHER -> 3

\* filepath.Glob(dir/*): the entries of a directory, sorted by file name.
GlobDirs(tree) ==
    CHOOSE ds \in [1..Cardinality(tree.dirs) -> tree.dirs] :
        \A i, j \in 1..Cardinality(tree.dirs) :
            i < j => Compare(ds[i], ds[j]) < 0

GlobFiles(tree, dir) ==
    LET F == {f \in tree.files : f.group = dir}
    IN  CHOOSE fs \in [1..Cardinality(F) -> F] :
            \A i, j \in 1..Cardinality(F) :
                i < j => \/ Compare(fs[i].name, fs[j].name) < 0
                         \/ /\ fs[i].name = fs[j].name
                            /\ ExtOrd(fs[i].ext) < ExtOrd(fs[j].ext)

RECURSIVE Flatten(_)
Flatten(seqs) ==
    IF seqs = <<>> THEN <<>> ELSE Head(seqs) \o Flatten(Tail(seqs))

\* The value of Body at v, with v worked out once.
Bind(v, Body(_)) == CHOOSE r \in {Body(x) : x \in {v}} : TRUE

\* update, once the directories, their files and the three countUniqLen
\* results are known.
updateWith(dirsBase, imgs, dirsUniq, imgsUniq, allUniq) ==
    LET Offset(d) == Len(Flatten([e \in 1..(d - 1) |-> imgs[e]]))
    IN  IF \/ dirsUniq.err # "nil"
           \/ \E d \in 1..Len(dirsBase) : imgsUniq[d].err # "nil"
           \/ allUniq.err # "nil"
        THEN [err |-> "countUniqLenError", groups |-> <<>>]
        ELSE [err |-> "nil",
              groups |->
                [d \in 1..Len(dirsBase) |->
                    [name |-> dirsBase[d],
                     uniqLen |-> dirsUniq.ret[d],
                     stickers |->
                        [i \in 1..Len(imgs[d]) |->
                            [name |-> imgs[d][i].name,
                             ext |-> imgs[d][i].ext,
                             uniqLen |-> imgsUniq[d].ret[i],
                             uniqLenGlob |-> allUniq.ret[Offset(d) + i]]]]]]

ImgNames(imgs) == [i \in 1..Len(imgs) |-> imgs[i].name]

\* update: the groups read from the tree, or the error that leaves
\* m.groups as it was.
update(tree) ==
    Bind(GlobDirs(tree), LAMBDA dirsBase :
        Bind([d \in 1..Len(dirsBase) |-> GlobFiles(tree, dirsBase[d])], LAMBDA imgs :
            Bind(countUniqLen(dirsBase), LAMBDA dirsUniq :
                Bind([d \in 1..Len(dirsBase) |-> countUniqLen(ImgNames(imgs[d]))],
                     LAMBDA imgsUniq :
                    Bind(countUniqLen(ImgNames(Flatten(imgs))), LAMBDA allUniq :
                        updateWith(dirsBase, imgs, dirsUniq, imgsUniq, allUniq))))))

\* MatchedGroups: the positions of the groups whose name starts with groupName.
MatchedGroups(gs, groupName) ==
    LET Starts(g) == HasPrefix(gs[g].name, groupName)
    IN  FilterSeq(Indices(gs), Starts)

\* MatchedStickers of the grouped Manager: <<group position, sticker
\* position>> of the stickers whose name starts with the name part of id,
\* in the groups whose name starts with its group part.
GroupedMatchedStickers(gs, id) ==
    LET tok    == Split(id, "/")
        name   == IF Len(tok) > 1 THEN tok[2] ELSE tok[1]
        within == IF Len(tok) > 1 THEN MatchedGroups(gs, tok[1]) ELSE Indices(gs)
        InGroup(g) ==
            LET Starts(i) == HasPrefix(gs[g].stickers[i].name, name)
                hits == FilterSeq(Indices(gs[g].stickers), Starts)
            IN  [k \in 1..Len(hits) |-> <<g, hits[k]>>]
    IN  IF Len(tok) > 2 THEN <<>>
        ELSE Flatten([k \in 1..Len(within) |-> InGroup(within[k])])

Img(group, name, ext) == [group |-> group, name |-> name, ext |-> ext]

NoImg == Img(<<>>, <<>>, "")

\* os.Mkdir(dir, 0755)
mkdir(tree, dir) == [tree EXCEPT !.dirs = @ \cup {dir}]

\* os.Remove(dir): fails, changing nothing, when the directory has entries.
removeDir(tree, dir) ==
    IF \E f \in tree.files : f.group = dir THEN tree
    ELSE [tree EXCEPT !.dirs = @ \ {dir}]

\* os.Create(imgPath) and the copy into it.
createImg(tree, img) == [tree EXCEPT !.files = @ \cup {img}]

\* os.Remove(imgPath)
removeImg(tree, img) == [tree EXCEPT !.files = @ \ {img}]

\* os.Rename(from, to): fails, changing nothing, when the file or the
\* directory it should go to is missing.
renameImg(tree, from, to) ==
    IF from \in tree.files /\ to.group \in tree.dirs
    THEN [tree EXCEPT !.files = (@ \ {from}) \cup {to}]
    ELSE tree

\* The deferred functions of AddSticker and RenameSticker.
Deferred(do, dir, from, to) == [do |-> do, dir |-> dir, from |-> from, to |-> to]

Compensate(tree, c) ==
    CASE c.do = "remove_dir"  -> removeDir(tree, c.dir)
      [] c.do = "remove_file" -> removeImg(tree, c.from)
      [] c.do = "move_back"   -> renameImg(tree, c.from, c.to)
      [] c.do = "mkdir"       -> mkdir(tree, c.dir)

\* Mutant of RunDeferred: the deferred functions run first registered
\* first.
RECURSIVE RunDeferredFifo(_, _)
RunDeferredFifo(tree, defers) ==
    IF defers = <<>> THEN [tree |-> tree, undone |-> <<>>]
    ELSE LET rest == RunDeferredFifo(Compensate(tree, Head(defers)), Tail(defers))
         IN  [tree |-> rest.tree, undone |-> <<Head(defers).do>> \o rest.undone]

\* Go runs the deferred functions last registered first; each of them acts
\* only when retErr is not nil.
RECURSIVE RunDeferred(_, _)
RunDeferred(tree, defers) ==
    IF defers = <<>> THEN [tree |-> tree, undone |-> <<>>]
    ELSE LET c    == defers[Len(defers)]
             rest == RunDeferred(Compensate(tree, c),
                                 SubSeq(defers, 1, Len(defers) - 1))
         IN  [tree |-> rest.tree, undone |-> <<c.do>> \o rest.undone]

GroupedOutcome(err, tag, gs, tree, did, undone) ==
    [err |-> err, tag |-> tag, groups |-> gs, tree |-> tree,
     did |-> did, undone |-> undone]

\* A return with retErr set after side effects: the deferred functions run.
GroupedFailure(err, tag, gs, tree, did, defers) ==
    LET back == RunDeferred(tree, defers)
    IN  GroupedOutcome(err, tag, gs, back.tree, did, back.undone)

GroupedCTypeExt(ctype) ==
    CASE ctype = "image/png"  -> "png"
      [] ctype = "image/jpeg" -> "jpeg"
      [] ctype = "image/gif"  -> "gif"
      [] OTHER                -> ""

\* AddSticker of the grouped Manager from os.Stat(dirPath) on: the request
\* is valid and the GET has succeeded.
addFetched(gs, tree, groupName, stickerName, resp, mkdirOK) ==
    LET newDir  == groupName \notin tree.dirs
        img     == Img(groupName, stickerName, GroupedCTypeExt(resp.ctype))
        did1    == IF newDir THEN <<"mkdir">> ELSE <<>>
        defers1 == IF newDir
                   THEN <<Deferred("remove_dir", groupName, NoImg, NoImg)>>
                   ELSE <<>>
        did2    == Append(did1, "create")
        defers2 == Append(defers1, Deferred("remove_file", <<>>, img, NoImg))
    IN  Bind(IF newDir THEN mkdir(tree, groupName) ELSE tree, LAMBDA tree1 :
        Bind(createImg(tree1, img), LAMBDA tree2 :
        Bind(update(tree2), LAMBDA scanned :
            IF newDir /\ ~mkdirOK
                THEN GroupedOutcome("uninformable", "mkdir_failed", gs, tree, <<>>, <<>>)
            ELSE IF ~resp.create
                THEN GroupedFailure("uninformable", "create_failed", gs, tree1, did1, defers1)
            ELSE IF ~resp.copy
                THEN GroupedFailure("uninformable", "copy_failed", gs, tree2, did2, defers2)
            ELSE IF scanned.err # "nil"
                THEN GroupedFailure("user", "update_failed", gs, tree2, did2, defers2)
            ELSE GroupedOutcome("nil", "added", scanned.groups, tree2, did2, <<>>))))

\* AddSticker of the grouped Manager.  resp is what the remote server and
\* the file system do, mkdirOK whether os.Mkdir succeeds.
GroupedAddSticker(gs, tree, path, resp, mkdirOK) ==
    Bind(Split(path, "/"), LAMBDA idSplitted :
        IF Len(idSplitted) # 2 \/ idSplitted[1] = <<>> \/ idSplitted[2] = <<>>
            THEN GroupedOutcome("user", "invalid_path", gs, tree, <<>>, <<>>)
        ELSE IF Len(GroupedMatchedStickers(gs, path)) # 0
            THEN GroupedOutcome("user", "matched", gs, tree, <<>>, <<>>)
        ELSE IF ~resp.head
            THEN GroupedOutcome("user", "head_failed", gs, tree, <<>>, <<>>)
        ELSE IF GroupedCTypeExt(resp.ctype) = ""
            THEN GroupedOutcome("user", "bad_ctype", gs, tree, <<>>, <<>>)
        ELSE IF ~Atoi(resp.clen).ok
            THEN GroupedOutcome("user", "bad_length", gs, tree, <<>>, <<>>)
        ELSE IF Atoi(resp.clen).val > AddStickerSizeLimit
            THEN GroupedOutcome("user", "too_large", gs, tree, <<>>, <<>>)
        ELSE IF ~resp.get
            THEN GroupedOutcome("uninformable", "get_failed", gs, tree, <<>>, <<>>)
        ELSE addFetched(gs, tree, idSplitted[1], idSplitted[2], resp, mkdirOK))

\* RenameSticker of the grouped Manager from os.Stat(dstDir) on: the source
\* sticker and the new path are settled.  fault names the file-system call
\* that fails, if any: "mkdir", "move" or "rmdir".  (filepath.Glob fails
\* only on a malformed pattern, which no directory name here makes.)
renameChecked(gs, tree, srcDir, srcSticker, dstDir, dstName, fault) ==
    LET newDir  == dstDir \notin tree.dirs
        srcPath == Img(srcDir, srcSticker.name, srcSticker.ext)
        dstPath == Img(dstDir, dstName, srcSticker.ext)
        did1    == IF newDir THEN <<"mkdir">> ELSE <<>>
        defers1 == IF newDir
                   THEN <<Deferred("remove_dir", dstDir, NoImg, NoImg)>>
                   ELSE <<>>
        did2    == Append(did1, "move")
        defers2 == Append(defers1, Deferred("move_back", <<>>, dstPath, srcPath))
    IN  Bind(IF newDir THEN mkdir(tree, dstDir) ELSE tree, LAMBDA tree1 :
        Bind(renameImg(tree1, srcPath, dstPath), LAMBDA tree2 :
        Bind(~\E f \in tree2.files : f.group = srcDir, LAMBDA emptied :
        Bind(IF emptied THEN removeDir(tree2, srcDir) ELSE tree2, LAMBDA tree3 :
        Bind(update(tree3), LAMBDA scanned :
            LET did3    == IF emptied THEN Append(did2, "rmdir") ELSE did2
                defers3 == IF emptied
                           THEN Append(defers2,
                                       Deferred("mkdir", srcDir, NoImg, NoImg))
                           ELSE defers2
            IN  IF newDir /\ fault = "mkdir"
                    THEN GroupedOutcome("uninformable", "mkdir_failed", gs, tree, <<>>, <<>>)
                ELSE IF fault = "move"
                    THEN GroupedFailure("uninformable", "move_failed", gs, tree1, did1, defers1)
                ELSE IF emptied /\ fault = "rmdir"
                    THEN GroupedFailure("uninformable", "rmdir_failed", gs, tree2, did2, defers2)
                ELSE IF scanned.err # "nil"
                    THEN GroupedFailure("user", "update_failed", gs, tree3, did3, defers3)
                ELSE GroupedOutcome("nil", "renamed", scanned.groups, tree3, did3, <<>>))))))

\* RenameSticker of the grouped Manager.
GroupedRenameSticker(gs, tree, src, dst, fault) ==
    Bind(GroupedMatchedStickers(gs, src), LAMBDA srcMatched :
    Bind(Split(dst, "/"), LAMBDA dstSplitted :
    Bind(GroupedMatchedStickers(gs, dst), LAMBDA dstMatched :
        IF Len(srcMatched) < 1
            THEN GroupedOutcome("user", "not_found", gs, tree, <<>>, <<>>)
        ELSE IF Len(srcMatched) > 1
            THEN GroupedOutcome("user", "ambiguous", gs, tree, <<>>, <<>>)
        ELSE IF Len(dstSplitted) # 2 \/ dstSplitted[1] = <<>> \/ dstSplitted[2] = <<>>
            THEN GroupedOutcome("user", "invalid_path", gs, tree, <<>>, <<>>)
        ELSE IF Len(dstMatched) > 1
                \/ (Len(dstMatched) = 1 /\ dstMatched[1] # srcMatched[1])
            THEN GroupedOutcome("user", "matched", gs, tree, <<>>, <<>>)
        ELSE renameChecked(gs, tree,
                           gs[srcMatched[1][1]].name,
                           gs[srcMatched[1][1]].stickers[srcMatched[1][2]],
                           dstSplitted[1], dstSplitted[2], fault))))

\* What users type as <group_name>/<sticker_name>, well formed or not, and
\* as the pattern that picks the sticker to rename.
GroupNames == {<<"a">>, <<"b">>, <<"a", "b">>}

StickerNames == {<<"a">>, <<"b">>, <<"a", "b">>}

GroupedPaths ==
    {g \o <<"/">> \o n : g \in GroupNames, n \in StickerNames}
        \cup {<<"a">>, <<"a", "/">>, <<"a", "/", "b", "/", "a">>}

GroupedIds ==
    {g \o <<"/">> \o n : g \in GroupNames, n \in StickerNames}
        \cup StickerNames \cup {<<>>, <<"a", "/", "b", "/", "a">>}

\* Directory trees the root may hold before the bot starts.
GroupedInitImgs ==
    {Img(<<"a">>, <<"a">>, "png"), Img(<<"a">>, <<"a">>, "gif"),
     Img(<<"a">>, <<"b">>, "png"), Img(<<"a">>, <<"a", "b">>, "png"),
     Img(<<"b">>, <<"a">>, "png"), Img(<<"b">>, <<"b">>, "gif"),
     Img(<<"a", "b">>, <<"b">>, "png"), Img(<<"b">>, <<"a", "b">>, "gif"),
     Img(<<"a">>, <<"C3", "A9", "a">>, "png"), Img(<<"b">>, <<"C3", "A9", "b">>, "png"),
     Img(<<"a">>, <<"FF">>, "png"), Img(<<"b">>, <<"FE">>, "png")}

GroupedInitTrees ==
    {[dirs |-> D, files |-> F] :
        D \in SUBSET GroupNames,
        F \in {F \in SUBSET GroupedInitImgs : Cardinality(F) <= MaxFiles}}

\* NewManager of the grouped Manager: it returns no Manager when update
\* fails, so the bot runs only on a tree that update accepts.
InitGrouped ==
    /\ mstate = "Uninitialized"
    /\ caseSensitive = FALSE
    /\ stickers = <<>>
    /\ files = {}
    /\ last = Call("none", <<>>, <<>>, "nil", "none", 0, FALSE)
    /\ HandlersIdle
    /\ query = NoQuery
    /\ CoolDownIdle
    /\ walk = NoWalkFault
    /\ CallersIdle
    /\ root \in {t \in GroupedInitTrees :
                    /\ \A f \in t.files : f.group \in t.dirs
                    /\ update(t).err = "nil"}
    /\ groups = update(root).groups
    /\ gLast = NoGroupedCall

GroupedFrame ==
    UNCHANGED <<managerVars, handlerVars, queryVars, coolVars, walkVars, fetchVars,
                replyVars, hintVars>>

\* The calls that return before any request or file operation.
GroupedAddRejectsPath(gs, path) ==
    Bind(Split(path, "/"), LAMBDA idSplitted :
        \/ Len(idSplitted) # 2 \/ idSplitted[1] = <<>> \/ idSplitted[2] = <<>>
        \/ Len(GroupedMatchedStickers(gs, path)) # 0)

GroupedCall(op, src, path, r) ==
    [op |-> op, src |-> src, path |-> path, err |-> r.err, tag |-> r.tag,
     did |-> r.did, undone |-> r.undone]

DoGroupedAddSticker ==
    /\ gLast.op = "none"
    /\ Cardinality(root.files) < MaxFiles
    /\ \E path \in GroupedPaths, mkdirOK \in BOOLEAN :
        \E resp \in IF GroupedAddRejectsPath(groups, path)
                    THEN {OkResponse} ELSE Responses :
        \E r \in {GroupedAddSticker(groups, root, path, resp, mkdirOK)} :
            /\ groups' = r.groups
            /\ root' = r.tree
            /\ gLast' = GroupedCall("add", <<>>, path, r)
    /\ GroupedFrame

DoGroupedRenameSticker ==
    /\ gLast.op = "none"
    /\ \E src \in GroupedIds, dst \in GroupedPaths,
          fault \in {"none", "mkdir", "move", "rmdir"} :
        \E r \in {GroupedRenameSticker(groups, root, src, dst, fault)} :
            /\ groups' = r.groups
            /\ root' = r.tree
            /\ gLast' = GroupedCall("rename", src, dst, r)
    /\ GroupedFrame

\* The caller takes the returned error, replies to the user and returns.
GroupedReply ==
    /\ gLast.op # "none"
    /\ gLast' = NoGroupedCall
    /\ UNCHANGED <<groups, root>>
    /\ GroupedFrame

GroupedNext == DoGroupedAddSticker \/ DoGroupedRenameSticker \/ GroupedReply

GroupedSpec == InitGrouped /\ [][GroupedNext]_vars

UndoOf(effect) ==
    CASE effect = "mkdir"  -> "remove_dir"
      [] effect = "create" -> "remove_file"
      [] effect = "move"   -> "move_back"
      [] effect = "rmdir"  -> "mkdir"

\* C13: when the rescan after the file write of AddSticker or the file move
\* of RenameSticker fails, the call returns an error, m.groups is what it
\* was, the compensations run in the reverse order of the side effects
\* made, and the directory tree is what it was before the call.
C13_FailedRescanRollsBack ==
    [][gLast'.tag = "update_failed"
        => /\ gLast'.err # "nil"
           /\ groups' = groups
           /\ root' = root
           /\ Len(gLast'.did) >= 1
           /\ gLast'.undone =
                [k \in 1..Len(gLast'.did) |->
                    UndoOf(gLast'.did[Len(gLast'.did) + 1 - k])]]_vars

\* A rename made the destination directory, moved the file, removed the
\* emptied source directory, and then the rescan failed.
C13_Witness ==
    /\ gLast.op = "rename" /\ gLast.tag = "update_failed"
    /\ gLast.did = <<"mkdir", "move", "rmdir">>
    /\ gLast.undone = <<"mkdir", "move_back", "remove_dir">>
    /\ groups = update(root).groups

(***************************************************************************)
(* NewManager on a root that filepath.WalkDir cannot walk in full.         *)
(* walk.root is "dir" (a readable directory), "missing" (os.Lstat fails),  *)
(* "file" (not a directory) or "unreadable" (ReadDir of the root fails);   *)
(* walk.denied holds the directories under the root whose ReadDir fails.   *)
(***************************************************************************)
\* The callback loadStickers hands to filepath.WalkDir: what it returns for
\* a path, given the error WalkDir reports for it.
walkDirFn(isRoot, err) ==
    IF isRoot THEN "nil"
    ELSE IF err # "nil" THEN "SkipDir"
    ELSE "nil"

\* filepath.WalkDir returns what the callback returned, SkipDir taken as
\* nil.
WalkDirErr(w) ==
    LET rets == {walkDirFn(TRUE, IF w.root = "dir" THEN "nil" ELSE "lstat")}
                    \cup {walkDirFn(FALSE, "readdir") : d \in w.denied}
    IN  IF rets \subseteq {"nil", "SkipDir"} THEN "nil" ELSE "walk"

UnderDenied(p, denied) ==
    \E n \in 1..Len(p.dir) : SubSeq(p.dir, 1, n) \in denied

\* The paths the callback appends: nothing unless the root is a directory
\* that can be read, and nothing below a directory that cannot be read.
Walked(fs, w) ==
    IF w.root # "dir" THEN {}
    ELSE {p \in fs : ~UnderDenied(p, w.denied)}

\* The directories that hold the files fs.
DirsOf(fs) == UNION {{SubSeq(p.dir, 1, n) : n \in 1..Len(p.dir)} : p \in fs}

\* The root argument: a relative path, an absolute path, a path with a
\* trailing separator, a path that starts at the working directory, and
\* the working directory itself.
RootArgs ==
    {<<"r">>, <<"/", "r">>, <<"r", "/">>, <<".", "/", "r">>, <<".">>}

WalkFaults(fs) ==
    {[root |-> r, denied |-> D, arg |-> a] :
        r \in {"dir", "unreadable"}, D \in SUBSET DirsOf(fs), a \in RootArgs}
        \cup {[root |-> r, denied |-> {}, arg |-> a] :
                r \in {"missing", "file"}, a \in RootArgs}

\* filepath.Clean of a path without "..": no empty element, no "." element,
\* no trailing separator; "." for the empty path.
Clean(path) ==
    LET Kept(c) == c # <<>> /\ c # <<".">>
        out == JoinWith(FilterSeq(Split(path, "/"), Kept), "/")
    IN  IF path # <<>> /\ path[1] = "/" THEN <<"/">> \o out
        ELSE IF out = <<>> THEN <<".">> ELSE out

\* The path filepath.WalkDir hands to the callback for the file p:
\* filepath.Join of the cleaned root and the names down to the file.  The
\* extension is the last element of the sequence.
WalkPath(rootArg, p) ==
    Clean(Clean(rootArg) \o <<"/">>
            \o JoinWith(p.dir \o <<p.stem \o <<p.ext>>>>, "/"))

\* The name loadStickers derives from the walked path of the file p, or
\* the run-time panic of the slice expression or of name[0].
DeriveNameAt(rootArg, p, cs) ==
    LET mroot == Clean(rootArg)
        path  == WalkPath(rootArg, p)
        upto  == Len(path) - 1
    IN  IF Len(mroot) > upto THEN [panic |-> TRUE, name |-> <<>>]
        ELSE LET name0 == SubSeq(path, Len(mroot) + 1, upto)
             IN  IF name0 = <<>> THEN [panic |-> TRUE, name |-> <<>>]
                 ELSE LET name1 == IF name0[1] = Separator THEN Tail(name0) ELSE name0
                          name2 == ReplaceAll(ToSlash(name1), "/", "-")
                      IN  [panic |-> FALSE,
                           name  |-> IF cs THEN name2 ELSE ToLower(name2)]

\* Mutant of loadStickersAt: of the files that get the same name one is
\* kept, any of them.
loadStickersAtOnePerName(rootArg, fs, cs) ==
    LET found == {q \in fs : q.ext # ""}
        all   == {Sticker(DeriveNameAt(rootArg, q, cs).name, q) : q \in found}
        Uniq(S) == \A x, y \in S : x.name = y.name => x = y
    IN  IF \E q \in found : DeriveNameAt(rootArg, q, cs).panic
        THEN [panic |-> TRUE, loaded |-> {}]
        ELSE [panic |-> FALSE,
              loaded |-> UNION {SortedArrangements(S) :
                            S \in {T \in SUBSET all :
                                    /\ Uniq(T)
                                    /\ \A x \in all : \E y \in T : y.name = x.name}}]

\* loadStickers of a Manager whose root is filepath.Clean of rootArg: the
\* possible values of m.stickers, or the panic.
loadStickersAt(rootArg, fs, cs) ==
    LET found == {q \in fs : q.ext # ""}
    IN  IF \E q \in found : DeriveNameAt(rootArg, q, cs).panic
        THEN [panic |-> TRUE, loaded |-> {}]
        ELSE [panic |-> FALSE,
              loaded |-> SortedArrangements(
                            {Sticker(DeriveNameAt(rootArg, q, cs).name, q) : q \in found})]

InitLoad ==
    /\ mstate = "Uninitialized"
    /\ caseSensitive \in BOOLEAN
    /\ stickers = <<>>
    /\ files \in {F \in SUBSET InitPaths : Cardinality(F) <= MaxFiles}
    /\ last = Call("none", <<>>, <<>>, "nil", "none", 0, FALSE)
    /\ HandlersIdle
    /\ query = NoQuery
    /\ CoolDownIdle
    /\ GroupedIdle
    /\ CallersIdle
    /\ walk \in WalkFaults(files)
    /\ walk.root \in {"missing", "file"} => files = {}
    /\ walk.root = "unreadable" => walk.denied = {}

\* NewManager: m, nil unless loadStickers returns an error or panics.
LoadNewManager ==
    /\ mstate = "Uninitialized"
    /\ last.op = "none"
    /\ IF WalkDirErr(walk) # "nil"
       THEN /\ stickers' = <<>>
            /\ mstate' = "Uninitialized"
            /\ last' = Call("load", <<>>, <<>>, "walk", "load_failed", 0, FALSE)
       ELSE \E r \in {loadStickersAt(walk.arg, Walked(files, walk), caseSensitive)} :
                IF r.panic
                THEN /\ stickers' = <<>>
                     /\ mstate' = "Crashed"
                     /\ last' = Call("load", <<>>, <<>>, "panic", "load_panicked", 0, FALSE)
                ELSE /\ \E loaded \in r.loaded : stickers' = loaded
                     /\ mstate' = "Ready"
                     /\ last' = Call("load", <<>>, <<>>, "nil", "loaded", 0, FALSE)
    /\ UNCHANGED <<caseSensitive, files>>
    /\ UNCHANGED <<handlerVars, otherVars>>

LoadNext == LoadNewManager

LoadSpec == InitLoad /\ [][LoadNext]_vars

\* C22 as stated: NewManager returns an error and no Manager when the root
\* is missing, is not a directory or cannot be read, or when the walk
\* meets a directory it cannot read; and the index of a Manager it returns
\* covers every file with an extension under the root.
C22_LoadFailsOnWalkError ==
    /\ (last.op = "load" /\ walk # NoWalkFault) => mstate # "Ready"
    /\ mstate = "Ready"
        => \A p \in files : p.ext # "" => \E i \in 1..Len(stickers) : stickers[i].path = p

(***************************************************************************)
(* AddSticker and the remote server.  The server answers the HEAD request  *)
(* with headers of its choice and the GET request with a body of its       *)
(* choice; io.Copy writes the whole body to the new file.                  *)
(***************************************************************************)
\* Answers to the HEAD request beside those of Responses: content types
\* that are close to an accepted one, a missing content type, a
\* Content-Length that is no integer.
FetchResponses ==
    Responses \cup
    {Response(TRUE, "image/jpeg", "1", TRUE, TRUE, TRUE),
     Response(TRUE, "image/PNG", "1", TRUE, TRUE, TRUE),
     Response(TRUE, "image/png; charset=binary", "1", TRUE, TRUE, TRUE),
     Response(TRUE, "", "1", TRUE, TRUE, TRUE),
     Response(TRUE, "image/gif", "abc", TRUE, TRUE, TRUE),
     Response(TRUE, "text/html", "3500001", TRUE, TRUE, TRUE)}

\* Lengths of the body the server sends in answer to the GET request.
BodyLengths == {1, AddStickerSizeLimit, AddStickerSizeLimit + 1}

\* Sticker files the root holds when the bot starts.
FetchFiles == {RootPath(<<"a", "b">>, ".png"), RootPath(<<"b", "a">>, ".gif")}

InitFetch ==
    /\ mstate = "Ready"
    /\ caseSensitive \in BOOLEAN
    /\ files \in SUBSET FetchFiles
    /\ stickers \in loadStickers(files, caseSensitive)
    /\ last = Call("none", <<>>, <<>>, "nil", "none", 0, FALSE)
    /\ HandlersIdle
    /\ OthersIdle

\* io.Copy(w, resp.Body): the bytes in the file AddSticker leaves.
Copied(r, body) == IF r.err = "nil" THEN body ELSE 0

\* AddSticker(name, url) against a server of any behaviour.
DoFetchAddSticker ==
    /\ mstate = "Ready"
    /\ last.op = "none"
    /\ Cardinality(files) < MaxFiles
    /\ \E name \in InputNames :
        \E resp \in IF AddRejectsName(stickers, caseSensitive, name)
                    THEN {OkResponse} ELSE FetchResponses :
        \E body \in BodyLengths :
        \E r \in {AddSticker(stickers, files, caseSensitive, name, resp)} :
            /\ stickers' = r.stickers
            /\ files' = r.files
            /\ last' = Call("add", <<>>, name, r.err, r.tag, r.http, r.created)
            /\ fetch' = IF r.http = 0 THEN NoFetch
                        ELSE [head |-> resp.head, ctype |-> resp.ctype,
                              clen |-> resp.clen,
                              body |-> IF r.http = 2 /\ resp.get THEN body ELSE 0,
                              written |-> Copied(r, body)]
    /\ UNCHANGED <<mstate, caseSensitive>>
    /\ UNCHANGED <<handlerVars, queryVars, coolVars, groupedVars, walkVars, replyVars, hintVars>>

\* The caller takes the returned error, replies to the user and returns.
FetchReply ==
    /\ last.op # "none"
    /\ last' = Call("none", <<>>, <<>>, "nil", "none", 0, FALSE)
    /\ fetch' = NoFetch
    /\ UNCHANGED <<mstate, caseSensitive, stickers, files>>
    /\ UNCHANGED <<handlerVars, queryVars, coolVars, groupedVars, walkVars, replyVars, hintVars>>

FetchNext == DoFetchAddSticker \/ FetchReply

FetchSpec == InitFetch /\ [][FetchNext]_vars

\* The Content-Length values that are integers, as numbers.
DeclaredLength(clen) ==
    CASE clen = "1"       -> 1
      [] clen = "3500000" -> 3500000
      [] clen = "3500001" -> 3500001
      [] OTHER            -> -1

IsInteger(clen) == clen \in {"1", "3500000", "3500001"}

\* C23: when the HEAD response's Content-Type is not exactly image/png,
\* image/jpeg or image/gif, or its Content-Length is missing, no integer or
\* above 3,500,000, AddSticker returns a user-visible error, sends no GET
\* and creates no file; a declared length of exactly 3,500,000 passes.
C23_HeadersChecked ==
    [][(last'.op = "add" /\ fetch'.head)
        => /\ (\/ fetch'.ctype \notin {"image/png", "image/jpeg", "image/gif"}
               \/ ~IsInteger(fetch'.clen)
               \/ DeclaredLength(fetch'.clen) > 3500000)
                => /\ last'.err = "user"
                   /\ last'.http = 1
                   /\ ~last'.created
                   /\ files' = files
                   /\ stickers' = stickers
           /\ (/\ fetch'.ctype \in {"image/png", "image/jpeg", "image/gif"}
               /\ fetch'.clen = "3500000")
                => last'.tag \notin {"bad_ctype", "bad_length", "too_large"}]_vars

\* A sticker was added from a source that declared exactly 3,500,000
\* bytes.
C23_Witness ==
    /\ last.op = "add" /\ last.err = "nil" /\ last.http = 2
    /\ fetch.clen = "3500000" /\ fetch.ctype = "image/png"
    /\ Len(stickers) >= 1

\* C24 as stated: no successful AddSticker leaves a file of more than
\* AddStickerSizeLimit bytes, whatever the server sends.
C24_NoOversizedFile ==
    (last.op = "add" /\ last.err = "nil") => fetch.written <= AddStickerSizeLimit

(***************************************************************************)
(* handleAdd and handleRename: the call on the Manager and the reply.  An  *)
(* error is "nil", "uninformable" (the sentinel UninformableErr) or "user" *)
(* (any errors.New value, whose text is for the user).                     *)
(***************************************************************************)
\* Mutant of replyText: the error's text is shown whatever the error.
replyTextAlways(err) ==
    IF err = "nil" THEN "done" ELSE "error_text"

\* What the handler replies with: err.Error(), the fixed "Something goes
\* wrong here!" message, or "Done.".
replyText(err) ==
    IF err # "nil"
    THEN IF err # "uninformable" THEN "error_text" ELSE "generic"
    ELSE "done"

ReplyFrame ==
    UNCHANGED <<handlerVars, queryVars, coolVars, groupedVars, walkVars, fetchVars,
                hintVars, post>>

handleAdd ==
    /\ mstate = "Ready"
    /\ reply.op = "none"
    /\ Cardinality(files) < MaxFiles
    /\ \E name \in InputNames :
        \E resp \in IF AddRejectsName(stickers, caseSensitive, name)
                    THEN {OkResponse} ELSE Responses :
        \E r \in {AddSticker(stickers, files, caseSensitive, name, resp)} :
            /\ stickers' = r.stickers
            /\ files' = r.files
            /\ last' = Call("add", <<>>, name, r.err, r.tag, r.http, r.created)
            /\ reply' = [op |-> "add", resp |-> resp, move |-> TRUE,
                         text |-> replyText(r.err)]
    /\ UNCHANGED <<mstate, caseSensitive>>
    /\ ReplyFrame

handleRename ==
    /\ mstate = "Ready"
    /\ reply.op = "none"
    /\ \E src \in RenameSources(stickers), dst \in InputNames :
        \E moveOK \in IF RenameRejectsNames(stickers, caseSensitive, src, dst)
                      THEN {TRUE} ELSE BOOLEAN :
        \E r \in {RenameSticker(stickers, files, caseSensitive, src, dst, moveOK)} :
            /\ stickers' = r.stickers
            /\ files' = r.files
            /\ last' = Call("rename", src, dst, r.err, r.tag, 0, FALSE)
            /\ reply' = [op |-> "rename", resp |-> OkResponse, move |-> moveOK,
                         text |-> replyText(r.err)]
    /\ UNCHANGED <<mstate, caseSensitive>>
    /\ ReplyFrame

\* The handler has returned; the next event may come.
HandlerReturns ==
    /\ reply.op # "none"
    /\ reply' = NoReply
    /\ last' = Call("none", <<>>, <<>>, "nil", "none", 0, FALSE)
    /\ UNCHANGED <<mstate, caseSensitive, stickers, files>>
    /\ ReplyFrame

ReplyNext == handleAdd \/ handleRename \/ HandlerReturns

ReplySpec == InitFetch /\ [][ReplyNext]_vars

\* The new name has no separator and conflicts with no entry.
AddNameValid(ss, cs, name) ==
    ~Contains(ToSlash(name), "/") /\ ~NameConflicts(ss, cs, name)

\* The pattern names one entry and the new name has no separator and
\* conflicts with no other entry.
RenameNamesValid(ss, cs, src, dst) ==
    /\ Cardinality(Hits(ss, cs, src)) = 1
    /\ ~Contains(ToSlash(dst), "/")
    /\ ~ClashesWithOther(ss, cs, CHOOSE i \in Hits(ss, cs, src) : TRUE, dst)

\* The HEAD request succeeded and its headers pass the checks.
HeadAccepted(resp) ==
    /\ resp.head
    /\ resp.ctype \in {"image/png", "image/jpeg", "image/gif"}
    /\ IsInteger(resp.clen)
    /\ DeclaredLength(resp.clen) <= 3500000

MaxHintList == 3

HintNames ==
    {<<>>, <<"a">>, <<"b">>, <<"a", "a">>, <<"a", "b">>, <<"a", "b", "a">>,
     <<"C3", "A9">>, <<"C3", "A9", "a">>, <<"C3">>,
     <<"FF">>, <<"FE">>, <<"FF", "a">>, <<"a", "[">>}

HintLists == UNION {[1..n -> HintNames] : n \in 0..MaxHintList}

InitHint ==
    /\ mstate = "Uninitialized"
    /\ caseSensitive = FALSE
    /\ stickers = <<>>
    /\ files = {}
    /\ last = Call("none", <<>>, <<>>, "nil", "none", 0, FALSE)
    /\ HandlersIdle
    /\ query = NoQuery
    /\ CoolDownIdle
    /\ GroupedIdle
    /\ walk = NoWalkFault
    /\ fetch = NoFetch
    /\ reply = NoReply
    /\ post = NoPost
    /\ hint \in {NoHint(strs) : strs \in HintLists}

HintFrame ==
    UNCHANGED <<managerVars, handlerVars, queryVars, coolVars, groupedVars, walkVars,
                fetchVars, replyVars>>

\* countUniqLen(strs)
DoCountUniqLen ==
    /\ hint.op = "none"
    /\ \E r \in {countUniqLen(hint.strs)} :
        hint' = [hint EXCEPT !.op = "counted", !.err = r.err, !.ret = r.ret,
                             !.str1 = r.str1, !.str2 = r.str2]
    /\ HintFrame

\* StringWithHint of every name of an accepted list, as a listing does.
DoWithHint ==
    /\ hint.op = "counted"
    /\ hint.err = "nil"
    /\ hint' = [hint EXCEPT !.op = "shown",
                            !.shown = [i \in 1..Len(hint.strs) |->
                                        withHint(hint.strs[i], hint.ret[i])]]
    /\ HintFrame

HintNext == DoCountUniqLen \/ DoWithHint

HintSpec == InitHint /\ [][HintNext]_vars

\* The first k code points of rs, all of rs when it has fewer.
Take(rs, k) == SubSeq(rs, 1, IF k < Len(rs) THEN k ELSE Len(rs))

IsPrefixOf(p, t) == Len(p) <= Len(t) /\ SubSeq(t, 1, Len(p)) = p

\* The length of the longest common prefix of x and y.
CommonPrefixLength(x, y) ==
    Max({n \in 0..Len(x) : n <= Len(y) /\ SubSeq(x, 1, n) = SubSeq(y, 1, n)})

Accepted == hint.op # "none" /\ hint.err = "nil"

\* C26 as stated: for an accepted list of two or more names, the hint of a
\* name is one more than its longest common prefix, in code points, with
\* another name; it lies between 1 and the name's length in code points
\* and is the least k for which the first k code points of the name are a
\* prefix of no other name.
C26_HintIsMinimalPrefix ==
    (Accepted /\ Len(hint.strs) >= 2)
        => \A i \in 1..Len(hint.strs) :
            LET ri     == Runes(hint.strs[i])
                others == (1..Len(hint.strs)) \ {i}
                h      == hint.ret[i]
            IN  /\ h = 1 + Max({CommonPrefixLength(ri, Runes(hint.strs[j])) : j \in others})
                /\ 1 <= h /\ h <= Len(ri)
                /\ \A j \in others : ~IsPrefixOf(Take(ri, h), Runes(hint.strs[j]))
                /\ \E j \in others : IsPrefixOf(Take(ri, h - 1), Runes(hint.strs[j]))

\* C27 as stated: in an accepted list the first hint_i code points of name
\* i are not a prefix of the first hint_j code points of another name j.
C27_HintedPrefixesDistinct ==
    Accepted
        => \A i, j \in 1..Len(hint.strs) :
            i # j => ~IsPrefixOf(Take(Runes(hint.strs[i]), hint.ret[i]),
                                 Take(Runes(hint.strs[j]), hint.ret[j]))

StripBrackets(text) ==
    LET NotBracket(c) == c \notin {"[", "]"}
    IN  SelectSeq(text, NotBracket)

\* C28 as stated: for every name of an accepted list withHint does not
\* slice beyond the end of the name, its result without the brackets is
\* the name, and it is the name itself exactly when the hint is the name's
\* length in code points.
C28_WithHintRoundTrip ==
    hint.op = "shown"
        => \A i \in 1..Len(hint.strs) :
            /\ ~hint.shown[i].panic
            /\ StripBrackets(hint.shown[i].out) = hint.strs[i]
            /\ (hint.shown[i].out = hint.strs[i])
                    <=> (hint.ret[i] = Len(Runes(hint.strs[i])))

Clashing(strs, i, j) ==
    \/ strs[i] = strs[j]
    \/ IsPrefixOf(strs[i], strs[j])
    \/ IsPrefixOf(strs[j], strs[i])

Orders(n) == {f \in [1..n -> 1..n] : \A k \in 1..n : \E m \in 1..n : f[m] = k}

\* C29: countUniqLen returns an error and no hints exactly when two names
\* of the list are equal or one is a prefix of the other; the error names
\* the first such pair in the order of the scan, and whether there is an
\* error does not depend on the order of the list.
C29_ErrorIffPrefixPair ==
    hint.op # "none"
        => LET strs == hint.strs
               n    == Len(strs)
           IN  /\ (hint.err # "nil")
                    <=> \E i, j \in 1..n : i < j /\ Clashing(strs, i, j)
               /\ hint.err # "nil"
                    => /\ hint.ret = <<>>
                       /\ \E i, j \in 1..n :
                            /\ i < j /\ Clashing(strs, i, j)
                            /\ hint.str1 = strs[i] /\ hint.str2 = strs[j]
                            /\ \A k, l \in 1..n :
                                (k < l /\ Clashing(strs, k, l))
                                    => (i < k \/ (i = k /\ j <= l))
               /\ hint.err = "nil" => Len(hint.ret) = n
               /\ \A f \in Orders(n) :
                    (countUniqLen([k \in 1..n |-> strs[f[k]]]).err = "nil")
                        <=> (hint.err = "nil")

\* The error names the first pair of three names that clash pairwise, and
\* the clash is one of prefix, not of equality.
C29_Witness ==
    /\ hint.op = "counted" /\ hint.err = "countUniqLenError"
    /\ Len(hint.strs) = 3
    /\ hint.str1 = hint.strs[1] /\ hint.str2 = hint.strs[3]
    /\ hint.str1 # hint.str2
    /\ Clashing(hint.strs, 2, 3)

\* The part of the string name that holds its first k code points (all of
\* it when it has fewer).
CodePoints(name, k) ==
    LET n == CHOOSE n \in 0..Len(name) :
                Runes(SubSeq(name, 1, n)) = Take(Runes(name), k)
    IN  SubSeq(name, 1, n)

Fields(arg) ==
    LET NonEmpty(f) == Len(f) # 0
    IN  FilterSeq(Split(arg, " "), NonEmpty)

\* The inner loop of buildPatternGroups over strings.SplitAfter(f, "/"):
\* every slash is a token of its own, the text between slashes a token
\* when it is not empty.
SlashTokens(f) ==
    LET parts == Split(f, "/")
        Toks[k \in 0..Len(parts)] ==
            IF k = 0 THEN <<>>
            ELSE Toks[k - 1]
                    \o (IF Len(parts[k]) > 0 THEN <<parts[k]>> ELSE <<>>)
                    \o (IF k < Len(parts) THEN <<<<"/">>>> ELSE <<>>)
    IN  Toks[Len(parts)]

\* Mutant of buildPatternGroups: the slash is no separator of groups, the
\* patterns on both sides of it form one group.
buildPatternGroupsOneGroup(arg) ==
    LET NotSlash(t) == t # <<"/">>
    IN  <<FilterSeq(Flatten([k \in 1..Len(Fields(arg)) |-> SlashTokens(Fields(arg)[k])]),
                    NotSlash)>>

\* buildPatternGroups: the tokens of all fields, cut into groups at the
\* slash tokens.
buildPatternGroups(arg) ==
    LET fs   == Fields(arg)
        toks == Flatten([k \in 1..Len(fs) |-> SlashTokens(fs[k])])
    IN  Split(toks, <<"/">>)

\* Mutant of handlePost: with several matches the first one is posted.
handlePostFirstMatch(ss, fs, cs, arg, multi, openOK, postOK) ==
    LET pg      == buildPatternGroups(arg)
        matched == MatchedIdx(ss, cs, pg)
        Result(open, posted, path, text) ==
            [op |-> "post", arg |-> arg, multi |-> multi, open |-> open,
             posted |-> posted, path |-> path, text |-> text]
    IN  IF Len(pg) > 1 THEN Result(FALSE, FALSE, NoPath, "no_slash")
        ELSE IF Len(matched) = 0 THEN Result(FALSE, FALSE, NoPath, "not_found")
        ELSE LET path == ss[matched[1]].path
             IN  IF ~(openOK /\ path \in fs) THEN Result(TRUE, FALSE, path, "generic")
                 ELSE IF ~postOK THEN Result(TRUE, FALSE, path, "generic")
                 ELSE Result(TRUE, TRUE, path, "sticker")

\* handlePost under the shared lock.  multi: the caller gave a handleMulti;
\* openOK and postOK: os.Open and postSticker succeed.  The result says
\* whether os.Open was called, on which path, whether the file was posted,
\* and which reply the user got.
handlePost(ss, fs, cs, arg, multi, openOK, postOK) ==
    LET pg      == buildPatternGroups(arg)
        matched == MatchedIdx(ss, cs, pg)
        Result(open, posted, path, text) ==
            [op |-> "post", arg |-> arg, multi |-> multi, open |-> open,
             posted |-> posted, path |-> path, text |-> text]
    IN  IF Len(pg) > 1 THEN Result(FALSE, FALSE, NoPath, "no_slash")
        ELSE IF Len(matched) = 0 THEN Result(FALSE, FALSE, NoPath, "not_found")
        ELSE IF Len(matched) > 1
        THEN Result(FALSE, FALSE, NoPath, IF multi THEN "buttons" ELSE "too_many")
        ELSE LET path == ss[matched[1]].path
             IN  IF ~(openOK /\ path \in fs) THEN Result(TRUE, FALSE, path, "generic")
                 ELSE IF ~postOK THEN Result(TRUE, FALSE, path, "generic")
                 ELSE Result(TRUE, TRUE, path, "sticker")

\* What users type after the command.
PostArgs == SeqsUpTo({"a", "b", " ", "/"}, 3)

\* Sticker files the root holds: three names with an a, one of them with a
\* b as well.
PostFiles ==
    {RootPath(<<"a", "a">>, ".png"), RootPath(<<"a", "-">>, ".png"),
     RootPath(<<"a", "b">>, ".gif")}

InitPost ==
    /\ mstate = "Ready"
    /\ caseSensitive \in BOOLEAN
    /\ files \in SUBSET PostFiles
    /\ stickers \in loadStickers(files, caseSensitive)
    /\ last = Call("none", <<>>, <<>>, "nil", "none", 0, FALSE)
    /\ HandlersIdle
    /\ OthersIdle

PostFrame ==
    UNCHANGED <<mstate, caseSensitive, stickers, files, last, handlerVars,
                queryVars, coolVars, groupedVars, walkVars, fetchVars, reply,
                hintVars>>

DoHandlePost ==
    /\ mstate = "Ready"
    /\ post.op = "none"
    /\ \E arg \in PostArgs, multi \in BOOLEAN, openOK \in BOOLEAN, postOK \in BOOLEAN :
            post' = handlePost(stickers, files, caseSensitive, arg, multi, openOK, postOK)
    /\ PostFrame

\* The handler has returned; the next event may come.
PostReturns ==
    /\ post.op # "none"
    /\ post' = NoPost
    /\ PostFrame

PostNext == DoHandlePost \/ PostReturns

PostSpec == InitPost /\ [][PostNext]_vars

\* The patterns of a request: the words of the argument, a slash being no
\* part of a word.
PatternsOf(arg) ==
    LET NotSlash(t) == t # <<"/">>
        fs == Fields(arg)
    IN  Range(FilterSeq(Flatten([k \in 1..Len(fs) |-> SlashTokens(fs[k])]), NotSlash))

\* The entries whose name contains every pattern of the request.
MatchAll(ss, cs, arg) ==
    {i \in 1..Len(ss) :
        \A pat \in PatternsOf(arg) :
            Contains(ss[i].name, IF cs THEN pat ELSE ToLower(pat))}

\* C31 as stated: handlePost opens and posts a sticker file if and only if
\* exactly one entry matches all patterns of the request.
C31_PostsIffOneMatch ==
    post.op = "post"
        => ((post.open /\ post.posted)
                <=> Cardinality(MatchAll(stickers, caseSensitive, post.arg)) = 1)

\* C31: handlePost calls os.Open on a sticker file if and only if the
\* argument has no slash and exactly one entry matches all its patterns;
\* the file is that entry's, and it is posted if and only if os.Open and
\* postSticker succeed.  With no match, several matches or a slash no file
\* is opened or posted.
C31_OpensIffOneMatch ==
    post.op = "post"
        => LET hits == MatchAll(stickers, caseSensitive, post.arg)
           IN  /\ post.open <=> (~Contains(post.arg, <<"/">>) /\ Cardinality(hits) = 1)
               /\ post.open => \E i \in hits : post.path = stickers[i].path
               /\ post.posted => post.open /\ post.text = "sticker"
               /\ (post.open /\ ~post.posted) => post.text = "generic"
               /\ ~post.open => post.path = NoPath

\* Three names contain the first pattern, one of them the second as well,
\* and the request with both patterns posted that entry.
C31_Witness ==
    /\ Len(stickers) = 3
    /\ post.arg = <<"a", " ", "b">>
    /\ post.posted /\ post.path = RootPath(<<"a", "b">>, ".gif")
    /\ Cardinality(MatchAll(stickers, caseSensitive, <<"a">>)) = 3

\* C32: after NewManager and after every AddSticker and RenameSticker no
\* entry name contains the path separator, and when the catalog is not
\* case sensitive every entry name is its own lower-cased form.
C32_NamesFoldedNoSeparator ==
    mstate = "Ready"
        => \A i \in 1..Len(stickers) :
            /\ ~Contains(stickers[i].name, <<Separator>>)
            /\ ~Contains(stickers[i].name, <<"/">>)
            /\ ~caseSensitive => stickers[i].name = ToLower(stickers[i].name)

\* The catalog folds case and a sticker was added under a name typed with
\* an upper-case letter, next to an entry that was loaded.
C32_Witness ==
    /\ ~caseSensitive
    /\ last.op = "add" /\ last.err = "nil"
    /\ last.name # ToLower(last.name)
    /\ Len(stickers) = 2

\* The name the documentation gives the file p: its path below the root
\* without the extension, every separator replaced by '-', lower-cased
\* unless the catalog is case sensitive.
DocumentedName(p, cs) ==
    LET name == JoinWith(p.dir \o <<p.stem>>, "-")
    IN  IF cs THEN name ELSE ToLower(name)

\* C33 as stated: for every form of the root argument, when the walk meets
\* no error, loadStickers makes exactly one entry for every file with an
\* extension, with the file's path and the documented name, and no entry
\* for a file without extension.
C33_LoadNamesEveryFile ==
    (last.op = "load" /\ walk.root = "dir" /\ walk.denied = {})
        => /\ mstate = "Ready"
           /\ \A p \in files :
                Cardinality({i \in 1..Len(stickers) : stickers[i].path = p})
                    = IF p.ext # "" THEN 1 ELSE 0
           /\ \A i \in 1..Len(stickers) :
                /\ stickers[i].path \in files
                /\ stickers[i].name = DocumentedName(stickers[i].path, caseSensitive)

(***************************************************************************)
(* Loading twice: a second NewManager on the root the first one read, with *)
(* the same options, for the flat Manager and for the grouped Manager.     *)
(***************************************************************************)
\* The root holds what InitLoad says and a flat Manager reads it, or it
\* holds directories of images and a grouped Manager reads it.
InitReload ==
    \/ InitLoad
    \/ /\ mstate = "Uninitialized"
       /\ caseSensitive = FALSE
       /\ stickers = <<>>
       /\ files = {}
       /\ last = Call("none", <<>>, <<>>, "nil", "none", 0, FALSE)
       /\ HandlersIdle
       /\ query = NoQuery
       /\ CoolDownIdle
       /\ walk = NoWalkFault
       /\ CallersIdle
       /\ root \in {t \in GroupedInitTrees :
                        t.files # {} /\ \A f \in t.files : f.group \in t.dirs}
       /\ groups = <<>>
       /\ gLast = NoGroupedCall

\* The second NewManager of the flat Manager.
LoadAgain ==
    /\ last.op = "load"
    /\ IF WalkDirErr(walk) # "nil"
       THEN /\ stickers' = <<>>
            /\ mstate' = "Uninitialized"
            /\ last' = Call("reload", <<>>, <<>>, "walk", "load_failed", 0, FALSE)
       ELSE \E r \in {loadStickersAt(walk.arg, Walked(files, walk), caseSensitive)} :
                IF r.panic
                THEN /\ stickers' = <<>>
                     /\ mstate' = "Crashed"
                     /\ last' = Call("reload", <<>>, <<>>, "panic", "load_panicked", 0, FALSE)
                ELSE /\ \E loaded \in r.loaded : stickers' = loaded
                     /\ mstate' = "Ready"
                     /\ last' = Call("reload", <<>>, <<>>, "nil", "loaded", 0, FALSE)
    /\ UNCHANGED <<caseSensitive, files>>
    /\ UNCHANGED <<handlerVars, otherVars>>

\* NewManager of the grouped Manager, the first one and the second one:
\* the groups update reads, none when update fails.
GroupedLoad(op) ==
    /\ root.files # {}
    /\ \E r \in {update(root)} :
        /\ groups' = r.groups
        /\ gLast' = [NoGroupedCall EXCEPT !.op = op, !.err = r.err,
                        !.tag = IF r.err = "nil" THEN "loaded" ELSE "update_failed"]
    /\ UNCHANGED root
    /\ GroupedFrame

GroupedNewManager == gLast.op = "none" /\ GroupedLoad("load")

GroupedLoadAgain == gLast.op = "load" /\ GroupedLoad("reload")

ReloadNext == LoadNewManager \/ LoadAgain \/ GroupedNewManager \/ GroupedLoadAgain

ReloadSpec == InitReload /\ [][ReloadNext]_vars

\* The (name, path) pairs of the grouped Manager's stickers.
GroupedEntries(gs) ==
    UNION {{<<gs[g].stickers[i].name,
              Img(gs[g].name, gs[g].stickers[i].name, gs[g].stickers[i].ext)>> :
                i \in 1..Len(gs[g].stickers)} : g \in 1..Len(gs)}

InitRooted ==
    /\ InitLoad
    /\ walk.root = "dir"
    /\ walk.denied = {}

RootedNext == LoadNewManager \/ DoAddSticker \/ DoRenameSticker \/ Reply

RootedSpec == InitRooted /\ [][RootedNext]_vars

\* C35 as stated: after NewManager and any AddSticker and RenameSticker
\* calls, failed ones included, the index is one that a fresh NewManager
\* on the same root with the same case option would build from the files
\* now under the root: the same (name, path) pairs in the order of the
\* names.
C35_IndexIsFreshLoad ==
    mstate = "Ready"
        => \E r \in {loadStickersAt(walk.arg, files, caseSensitive)} :
                ~r.panic /\ stickers \in r.loaded

(***************************************************************************)
(* insertSticker on its own: any entry, whether or not its name is in the  *)
(* index, next to the AddSticker and RenameSticker calls that use it.      *)
(***************************************************************************)
\* m.insertSticker(&Sticker{name, path}) on the index as it is.  The entry
\* is none that AddSticker or RenameSticker made, so the Manager takes no
\* further call ("Inserted").
DoInsertSticker ==
    /\ mstate = "Ready"
    /\ last.op = "none"
    /\ \E name \in InputNames, ext \in {".png"} :
        /\ stickers' = insertSticker(stickers, Sticker(name, RootPath(name, ext)))
        /\ last' = Call("insert", <<ext>>, name, "nil",
                        IF stickers' = stickers THEN "skipped" ELSE "inserted", 0, FALSE)
    /\ mstate' = "Inserted"
    /\ UNCHANGED <<caseSensitive, files>>
    /\ UNCHANGED <<handlerVars, otherVars>>

InsertNext == DoAddSticker \/ DoRenameSticker \/ DoInsertSticker \/ Reply

InsertSpec == InitFetch /\ [][InsertNext]_vars

\* C36: the index is in non-decreasing order of the names, byte by byte,
\* after NewManager and after every AddSticker, RenameSticker and
\* insertSticker; insertSticker of an entry whose name is in the index
\* leaves it as it was, and otherwise makes it one entry longer, the new
\* entry at its place in the order and the others in the order they had.
C36_SortedInsert ==
    /\ [](mstate \in {"Ready", "Inserted"} => IsSorted(stickers))
    /\ [][last'.op = "insert"
            => LET s == Sticker(last'.name, RootPath(last'.name, last'.src[1]))
               IN  IF s.name \in Names(stickers)
                   THEN stickers' = stickers
                   ELSE /\ Len(stickers') = Len(stickers) + 1
                        /\ \E k \in 1..Len(stickers') :
                            /\ stickers'[k] = s
                            /\ RemoveAt(stickers', k) = stickers
                            /\ k > 1 => Compare(stickers'[k - 1].name, s.name) < 0
                            /\ k < Len(stickers')
                                => Compare(s.name, stickers'[k + 1].name) < 0]_vars

\* insertSticker was called with the name of the second of two entries
\* and another path, and left the index as it was.
C36_Witness ==
    /\ last.op = "insert" /\ last.tag = "skipped"
    /\ Len(stickers) = 2
    /\ stickers[2].name = last.name
    /\ stickers[2].path.ext # last.src[1]

\* What a successful RenameSticker(src, dst) does to the index and the
\* files, but for the old path: the entry src resolves to gets the folded
\* dst as name and root/dst+ext as path, the index keeps its length and its
\* other entries, the file is at the new path, which held no other file,
\* and no other file comes or goes.
RenameFrame(ss, fs, ssAfter, fsAfter, cs, src, dst, t) ==
    LET old == ss[t]
        new == Sticker(Folded(cs, dst), RootPath(dst, old.path.ext))
    IN  /\ MatchedIdx(ss, cs, <<<<src>>>>) = <<t>>
        /\ Len(ssAfter) = Len(ss)
        /\ \E k \in 1..Len(ssAfter) :
            /\ ssAfter[k] = new
            /\ RemoveAt(ssAfter, k) = RemoveAt(ss, t)
        /\ new.path \in fsAfter
        /\ new.path \notin fs \ {old.path}
        /\ fsAfter \ {new.path} = fs \ {old.path, new.path}

\* C37 as stated: after a successful RenameSticker the file is at the new
\* path and absent at the old path, and all the rest is as RenameFrame says.
C37_RenameMovesOneEntry ==
    [][(last'.op = "rename" /\ last'.err = "nil")
        => \E t \in 1..Len(stickers) :
            /\ RenameFrame(stickers, files, stickers', files', caseSensitive,
                           last'.src, last'.name, t)
            /\ stickers[t].path \notin files']_vars

\* C37: a successful RenameSticker leaves the number of entries unchanged,
\* gives the one resolved entry the folded dst as name and root/dst+ext as
\* path, with the file there and, unless that is the path it had, absent
\* at the old path, leaves every other entry as it was and creates,
\* deletes or overwrites no other file.
C37_RenameMovesOneEntryOrNone ==
    [][(last'.op = "rename" /\ last'.err = "nil")
        => \E t \in 1..Len(stickers) :
            /\ RenameFrame(stickers, files, stickers', files', caseSensitive,
                           last'.src, last'.name, t)
            /\ stickers[t].path \notin files'
                <=> stickers[t].path # RootPath(last'.name, stickers[t].path.ext)]_vars

\* A sticker loaded from a directory below the root was renamed next to
\* another entry, and its position in the index changed.
C37_Witness ==
    /\ last.op = "rename" /\ last.err = "nil"
    /\ Len(stickers) = 2
    /\ last.src = <<"a", "-", "b">>
    /\ stickers[2].name = last.name
    /\ stickers[2].path = RootPath(last.name, ".png")
    /\ Compare(stickers[1].name, <<"a", "-", "b">>) > 0

\* C38 as stated: no entry has the empty name after NewManager on files
\* with names and any AddSticker and RenameSticker calls; AddSticker("",
\* url) and RenameSticker(x, "") never succeed; so some name is always left
\* that AddSticker would not reject for containing the name of an entry.
C38_NoEmptyName ==
    /\ mstate = "Ready" => \A i \in 1..Len(stickers) : stickers[i].name # <<>>
    /\ (last.op \in {"add", "rename"} /\ last.name = <<>>) => last.err # "nil"
    /\ mstate = "Ready"
        => \E name \in InputNames :
                Len(containedIdx(stickers, caseSensitive, name)) = 0

====
